---- MODULE Spec2Model ----
(***************************************************************************)
(* EmpowerGIS session-authentication protocol.                             *)
(*                                                                         *)
(* The API (apps/api/src/routes/auth.ts, apps/api/src/middleware/auth.ts)  *)
(* runs every request as an async handler over one PostgreSQL pool.  Each  *)
(* `await pool.query(...)` is one atomic statement; statements of          *)
(* different requests interleave.  Login and Refresh run inside            *)
(* BEGIN..COMMIT on a dedicated connection (READ COMMITTED): their writes  *)
(* stay invisible to other requests until COMMIT, the rows they touch stay *)
(* row-locked until COMMIT or ROLLBACK, a statement that meets a locked    *)
(* row waits and then re-checks its WHERE clause on the row's latest       *)
(* committed version, and the partial unique index                         *)
(* ux_user_sessions_one_active_per_user is checked by every INSERT.        *)
(* Locks on users rows (the join under FOR UPDATE, the foreign key of the  *)
(* INSERT) only delay a statement and are left out.                        *)
(***************************************************************************)
EXTENDS Naturals, Integers, Sequences, FiniteSets, TLC

\* ---------------------------------------------------------------- bounds
MaxTokens == 2     \* refresh tokens ever stored (logins plus rotations)
MaxRows == 3       \* rows of a user_sessions table drawn as an input

\* The request handlers in flight at the same time.
Reqs == {"h1", "h2"}

\* The authorizedRequest calls of the web app in flight at the same time.
Calls == {"c1", "c2", "c3"}

NULL == "NULL"

Usernames == {"alice"}
Passwords == {"correct-horse", "wrong-horse"}

\* The password a registration payload of the model carries.
RegisterPassword == "correct-horse"

\* ---------------------------------------------------------------- state
VARIABLES
  users,      \* table users: sequence of rows, id = index
  terms,      \* table user_terms_acceptance: set of user ids with a row
  sessions,   \* table user_sessions (committed rows), id = index
  reqs,       \* per request handler: position and locals
  nextToken,  \* the next value generateRefreshToken() stores
  spent,      \* history: <<old token, session, new token>> of each rotation
  stored,                   \* web app: the token pair in localStorage / React state
  refreshInFlight,          \* web app: the pending refresh promise, by the call that made it
  refreshInFlightForToken,  \* web app: the refresh token that promise was made for
  calls,                    \* web app: the authorizedRequest calls under way
  accessHorizon,            \* access tokens issued with a token up to this one have expired
  parcels,         \* table parcels: set of rows, parcel_key unique
  address_points,  \* table address_points: set of rows, id unique
  searchQuery,     \* req.query of the search requests: q and limit
  searched,        \* per request handler: the answer of GET /search
  activity_logs,   \* table user_activity_logs and the log writes that failed
  limits           \* the stores of loginLimiter and registerLimiter for one IP

clientVars == <<stored, refreshInFlight, refreshInFlightForToken, calls, accessHorizon>>

searchVars == <<parcels, address_points, searchQuery, searched>>

vars == <<users, terms, sessions, reqs, nextToken, spent, clientVars, searchVars,
          activity_logs, limits>>

\* ---------------------------------------------------------------- crypto
\* sha256 hex digest of a refresh token: one-way, collision-free here.
hashToken(value) == <<"sha256", value>>

\* bcrypt.hash / bcrypt.compare.
bcryptHash(password) == <<"bcrypt", password>>
bcryptCompare(password, hash) == hash = bcryptHash(password)

\* jwt.sign({sub, sid, username}, secret).
issueAccessToken(userId, sessionId, username) ==
  [sub |-> userId, sid |-> sessionId, username |-> username]

\* ---------------------------------------------------------------- tables
UserIds == DOMAIN users
SessionIds == DOMAIN sessions

UserByUsername(username) == {u \in UserIds : users[u].username = username}

UserActive(u) == u \in UserIds /\ users[u].is_active

\* WHERE user_id = $1 AND revoked_at IS NULL
ActiveSessionsOf(uid) ==
  {s \in SessionIds : sessions[s].user_id = uid /\ sessions[s].revoked_reason = NULL}

\* An UPDATE that changes no row.
RevokeNoRows(S, set, reason) == S

\* An UPDATE without its WHERE clause.
RevokeEveryRow(S, set, reason) ==
  [s \in DOMAIN S |-> [S[s] EXCEPT !.revoked_reason = reason]]

\* SET revoked_at = NOW(), revoked_reason = reason, for the rows in set
RevokeRows(S, set, reason) ==
  [s \in DOMAIN S |-> IF s \in set THEN [S[s] EXCEPT !.revoked_reason = reason] ELSE S[s]]

\* ---------------------------------------------------------------- requests
NoResponse == [status |-> 0, error |-> NULL, sid |-> 0]

Idle ==
  [pc |-> "idle", op |-> NULL, uid |-> 0, sid |-> 0, tok |-> 0, newtok |-> 0,
   targets |-> {}, locked |-> {}, flag |-> FALSE, note |-> NULL, resp |-> NoResponse]

\* res.status(status).json({error}): resp is what the caller receives; op,
\* flag and note record which request was answered and why.
Reply(op, flag, status, error) ==
  [Idle EXCEPT !.pc = "done", !.op = op, !.flag = flag,
               !.resp = [status |-> status, error |-> error, sid |-> 0]]

\* The handler in slot r answers and ends; the answer stays in the slot until
\* the next request takes it.
Respond(r, answer) == reqs' = [reqs EXCEPT ![r] = answer]

\* A slot is free before its first request and after it has answered.
Free(r) == reqs[r].pc \in {"idle", "done"}

\* A database whose transactions take no row locks.
RowNeverLocked(r, s) == FALSE

\* A row lock another open transaction holds on session s.
RowLockedByOther(r, s) == \E q \in Reqs \ {r} : s \in reqs[q].locked

\* An uncommitted INSERT of another transaction for the same user.
PendingInsertByOther(r, uid) ==
  \E q \in Reqs \ {r} : reqs[q].pc = "l_commit" /\ reqs[q].uid = uid

\* The access tokens signed so far: one per session a login committed
\* (a refresh signs the same claims again).
IssuedTokens ==
  {issueAccessToken(sessions[s].user_id, s, users[sessions[s].user_id].username) :
     s \in SessionIds}

\* ---------------------------------------------------------------- rate limits
\* express-rate-limit in front of POST /login and POST /register, for the
\* requests of one IP.  Time is counted in minutes and passes a quarter of
\* an hour at a time.  A store holds the hits of the running window and the time it
\* ends; hits beyond max + 1 are not told apart.  admitted counts the requests
\* each limiter has let through, and last is the latest outcome: 429 with the
\* limiter's message, or 0 when next() was called.
LoginWindow == 15
LoginMax == 12
RegisterWindow == 60
RegisterMax == 10

\* The clock stops once it has reached Horizon.
Horizon == 60
Quarter == 15

NoStore == [hits |-> 0, resetTime |-> 0]

NoLimits ==
  [now |-> 0, login |-> NoStore, register |-> NoStore,
   admitted |-> [login |-> 0, register |-> 0],
   last |-> [route |-> NULL, status |-> 0, error |-> NULL]]

\* store.increment(key): a window that has ended starts again with this hit.
Increment(store, windowMs, max) ==
  IF store.hits = 0 \/ limits.now >= store.resetTime
    THEN [hits |-> 1, resetTime |-> limits.now + windowMs]
    ELSE [store EXCEPT !.hits = IF @ > max THEN @ ELSE @ + 1]

\* rateLimit({windowMs: 15 * 60 * 1000, max: 12, message}) on POST /login
LoginLimiter ==
  LET store == Increment(limits.login, LoginWindow, LoginMax)
  IN  limits' =
        IF store.hits > LoginMax
          THEN [limits EXCEPT !.login = store,
                  !.last = [route |-> "login", status |-> 429,
                            error |-> "Too many login attempts. Please try again later."]]
          ELSE [limits EXCEPT !.login = store, !.admitted.login = @ + 1,
                  !.last = [route |-> "login", status |-> 0, error |-> NULL]]

\* rateLimit({windowMs: 60 * 60 * 1000, max: 10, message}) on POST /register
RegisterLimiter ==
  LET store == Increment(limits.register, RegisterWindow, RegisterMax)
  IN  limits' =
        IF store.hits > RegisterMax
          THEN [limits EXCEPT !.register = store,
                  !.last = [route |-> "register", status |-> 429,
                            error |-> "Too many registration attempts. Please try again later."]]
          ELSE [limits EXCEPT !.register = store, !.admitted.register = @ + 1,
                  !.last = [route |-> "register", status |-> 0, error |-> NULL]]

\* A request of the IP reaches POST /login: the limiter answers 429 or calls
\* next(); the handler behind it is not followed here.
LimitedLogin ==
  /\ LoginLimiter
  /\ UNCHANGED <<users, terms, sessions, reqs, nextToken, spent, clientVars, searchVars,
                 activity_logs>>

LimitedRegister ==
  /\ RegisterLimiter
  /\ UNCHANGED <<users, terms, sessions, reqs, nextToken, spent, clientVars, searchVars,
                 activity_logs>>

\* Fifteen minutes pass.
Tick ==
  /\ limits.now < Horizon
  /\ limits' = [limits EXCEPT !.now = @ + Quarter]
  /\ UNCHANGED <<users, terms, sessions, reqs, nextToken, spent, clientVars, searchVars,
                 activity_logs>>

\* ---------------------------------------------------------------- activity
\* The latest write to the table user_activity_logs: its event_type, and
\* whether the INSERT failed and went to console.error.  on tells whether the
\* specification follows the table; one that does not keeps LogOff throughout.
LogOff == [on |-> FALSE, event |-> NULL, failed |-> FALSE]
LogEmpty == [on |-> TRUE, event |-> NULL, failed |-> FALSE]

\* await logUserActivity(eventType, ...): the INSERT is done, or it throws
\* and the catch writes to console.error.
logUserActivity(eventType) ==
  activity_logs' \in
    IF activity_logs.on
      THEN {[on |-> TRUE, event |-> eventType, failed |-> failed] : failed \in BOOLEAN}
      ELSE {activity_logs}

\* A logUserActivity without its catch: the failed INSERT reaches the error
\* middleware.
AfterLogRethrown(answer) ==
  IF activity_logs'.failed
    THEN [answer EXCEPT !.resp = [status |-> 500, error |-> "Internal server error", sid |-> 0]]
    ELSE answer

\* The handler after await logUserActivity(...): the catch has swallowed a
\* failure, so the answer prepared is the answer sent.
AfterLog(answer) == answer

\* ---------------------------------------------------------------- register
\* POST /register: INSERT INTO users ... ON CONFLICT DO NOTHING RETURNING id.
RegisterInsert(r, username) ==
  /\ Free(r)
  /\ IF UserByUsername(username) # {}
       THEN /\ Respond(r, Reply("register", FALSE, 409, "Username or email already exists"))
            /\ UNCHANGED users
       ELSE /\ users' = Append(users, [username |-> username,
                                       password_hash |-> bcryptHash(RegisterPassword),
                                       is_active |-> TRUE,
                                       last_login_at |-> 0])
            /\ reqs' = [reqs EXCEPT ![r] = [Idle EXCEPT !.pc = "g_terms", !.op = "register",
                                                        !.uid = Len(users) + 1]]
  /\ UNCHANGED <<limits, activity_logs, searchVars, terms, sessions, nextToken, spent, clientVars>>

\* POST /register: INSERT INTO user_terms_acceptance, then 201.
RegisterTerms(r) ==
  /\ reqs[r].pc = "g_terms"
  /\ terms' = terms \cup {reqs[r].uid}
  /\ logUserActivity("user_registered")
  /\ Respond(r, AfterLog(Reply("register", FALSE, 201, NULL)))
  /\ UNCHANGED <<limits, searchVars, users, sessions, nextToken, spent, clientVars>>

\* ---------------------------------------------------------------- login
\* loginSchema: username and password are non-empty strings.
LoginPayloadValid(username, password) == username # "" /\ password # ""

\* The answers of a login that fails; note is the reason handed to
\* logUserActivity("login_failed", ...), flag records that the password
\* presented is not the password of a registered user of that name.
LoginUnknownUser ==
  [Reply("login", TRUE, 401, "Invalid credentials") EXCEPT !.note = "user_not_found"]

LoginInactive(wrongPassword) ==
  [Reply("login", wrongPassword, 403, "Account is inactive") EXCEPT !.note = "inactive_user"]

LoginBadPassword ==
  [Reply("login", TRUE, 401, "Invalid credentials") EXCEPT !.note = "bad_password"]

\* A failed login that locks the account: SET is_active = FALSE.
FailedLoginLocksAccount(U, u) == [U EXCEPT ![u].is_active = FALSE]

\* UPDATE users SET last_failed_login_at = NOW() WHERE id = $1.
\* last_failed_login_at is no column of the modelled rows.
FailedLoginNoted(U, u) == U

\* POST /login up to the transaction: payload check, SELECT the user,
\* is_active check, bcrypt.compare.
LoginStart(r, username, password) ==
  /\ Free(r)
  /\ LET found == UserByUsername(username)
     IN  IF ~LoginPayloadValid(username, password)
           THEN /\ Respond(r, Reply("login", FALSE, 400, "Invalid login payload"))
                /\ UNCHANGED <<users, activity_logs>>
         ELSE IF found = {}
           THEN /\ logUserActivity("login_failed")
                /\ Respond(r, AfterLog(LoginUnknownUser))
                /\ UNCHANGED users
         ELSE LET u == CHOOSE x \in found : TRUE
              IN  IF ~users[u].is_active
                    THEN /\ logUserActivity("login_failed")
                         /\ Respond(r, AfterLog(LoginInactive(
                                          ~bcryptCompare(password, users[u].password_hash))))
                         /\ UNCHANGED users
                  ELSE IF ~bcryptCompare(password, users[u].password_hash)
                    THEN /\ users' = FailedLoginNoted(users, u)
                         /\ logUserActivity("login_failed")
                         /\ Respond(r, AfterLog(LoginBadPassword))
                  ELSE /\ reqs' = [reqs EXCEPT ![r] =
                             [Idle EXCEPT !.pc = "l_revoke", !.op = "login", !.uid = u]]
                       /\ UNCHANGED <<users, activity_logs>>
  /\ UNCHANGED <<limits, searchVars, terms, sessions, nextToken, spent, clientVars>>

\* A login transaction that goes to its INSERT without the revoking UPDATE.
LoginRevokeSkipped(r) ==
  /\ reqs[r].pc = "l_revoke"
  /\ reqs' = [reqs EXCEPT ![r].pc = "l_insert"]
  /\ UNCHANGED <<limits, activity_logs, searchVars, users, terms, sessions, nextToken, spent, clientVars>>

\* BEGIN; UPDATE user_sessions SET revoked_at = NOW(), revoked_reason =
\* 'replaced_by_new_login' WHERE user_id = $1 AND revoked_at IS NULL.
\* The statement sees the rows committed when it starts; it waits while
\* another transaction holds one of them.
LoginRevoke(r) ==
  /\ reqs[r].pc = "l_revoke"
  /\ LET targets == ActiveSessionsOf(reqs[r].uid)
     IN  IF \E s \in targets : RowLockedByOther(r, s)
           THEN reqs' = [reqs EXCEPT ![r].pc = "l_wait", ![r].targets = targets]
           ELSE reqs' = [reqs EXCEPT ![r].pc = "l_insert", ![r].locked = targets]
  /\ UNCHANGED <<limits, activity_logs, searchVars, users, terms, sessions, nextToken, spent, clientVars>>

\* The blocked UPDATE wakes up: it re-checks revoked_at IS NULL on the latest
\* version of the rows it had found, and sees no row committed meanwhile.
LoginRevokeResume(r) ==
  /\ reqs[r].pc = "l_wait"
  /\ \A s \in reqs[r].targets : ~RowLockedByOther(r, s)
  /\ reqs' = [reqs EXCEPT ![r].pc = "l_insert", ![r].targets = {},
                          ![r].locked = {s \in reqs[r].targets : sessions[s].revoked_reason = NULL}]
  /\ UNCHANGED <<limits, activity_logs, searchVars, users, terms, sessions, nextToken, spent, clientVars>>

\* The user_sessions table without its partial unique index.
UniqueConflictsNoIndex(r, uid) == {}

\* ux_user_sessions_one_active_per_user: UNIQUE (user_id) WHERE revoked_at IS
\* NULL.  The committed rows an INSERT of transaction r for uid collides with.
UniqueConflicts(r, uid) == ActiveSessionsOf(uid) \ reqs[r].locked

\* The INSERT must wait: a colliding row is being revoked, or a colliding
\* row is being inserted, by a transaction still open.
InsertMustWait(r, uid) ==
  \/ \E s \in UniqueConflicts(r, uid) :
        \E q \in Reqs \ {r} : s \in reqs[q].locked /\ reqs[q].op = "login"
  \/ UniqueConflicts(r, uid) = {} /\ PendingInsertByOther(r, uid)

\* catch (error) { ROLLBACK; throw }: the error middleware answers 500; note
\* records what was thrown.
InternalError(r, note) ==
  [Reply(reqs[r].op, reqs[r].flag, 500, "Internal server error") EXCEPT !.note = note]

\* INSERT INTO user_sessions (...) RETURNING id, expires_at.  A duplicate key
\* in the partial unique index throws.
LoginInsert(r) ==
  /\ reqs[r].pc = "l_insert"
  /\ ~InsertMustWait(r, reqs[r].uid)
  /\ IF UniqueConflicts(r, reqs[r].uid) # {}
       THEN /\ Respond(r, InternalError(r, "duplicate_key"))
            /\ UNCHANGED nextToken
       ELSE /\ nextToken <= MaxTokens
            /\ reqs' = [reqs EXCEPT ![r].pc = "l_commit", ![r].newtok = nextToken]
            /\ nextToken' = nextToken + 1
  /\ UNCHANGED <<limits, activity_logs, searchVars, users, terms, sessions, spent, clientVars>>

\* UPDATE users SET last_login_at = NOW(); COMMIT; issueAccessToken; 200.
LoginCommit(r) ==
  /\ reqs[r].pc = "l_commit"
  /\ LET u == reqs[r].uid
         sid == Len(sessions) + 1
         row == [user_id |-> u, refresh_token_hash |-> hashToken(reqs[r].newtok),
                 revoked_reason |-> NULL, expired |-> FALSE]
     IN  /\ sessions' = Append(RevokeRows(sessions, reqs[r].locked, "replaced_by_new_login"), row)
         /\ users' = [users EXCEPT ![u].last_login_at = @ + 1]
         /\ logUserActivity("login_success")
         /\ Respond(r, AfterLog([Reply("login", FALSE, 200, NULL) EXCEPT !.resp.sid = sid]))
  /\ UNCHANGED <<limits, searchVars, terms, nextToken, spent, clientVars>>

\* A rollback that leaves the transaction's revoking UPDATE in the table.
RolledBackKeepingRevoke(r) ==
  RevokeRows(sessions, reqs[r].locked, "replaced_by_new_login")

\* ROLLBACK: what the committed table holds after transaction r is undone.
RolledBack(r) == sessions

\* A statement of the login transaction throws (connection lost, statement
\* timeout): catch (error) { ROLLBACK; throw }.
LoginAbort(r) ==
  /\ reqs[r].pc \in {"l_revoke", "l_wait", "l_insert", "l_commit"}
  /\ sessions' = RolledBack(r)
  /\ Respond(r, InternalError(r, IF reqs[r].locked # {} THEN "aborted_after_revoke"
                                                         ELSE "aborted"))
  /\ UNCHANGED <<limits, activity_logs, searchVars, users, terms, nextToken, spent, clientVars>>

\* The INSERT INTO user_terms_acceptance throws (connection lost, statement
\* timeout): the handler holds no transaction and has no catch, so the error
\* goes to the error middleware and the INSERT INTO users stays.
RegisterTermsFail(r) ==
  /\ reqs[r].pc = "g_terms"
  /\ Respond(r, InternalError(r, "terms_failed"))
  /\ UNCHANGED <<limits, activity_logs, searchVars, users, terms, sessions, nextToken, spent,
                 clientVars>>

\* ---------------------------------------------------------------- refresh
\* The refresh lookup without its expires_at > NOW() test.
RefreshMatchesIgnoringExpiry(hash) ==
  {s \in SessionIds : /\ sessions[s].refresh_token_hash = hash
                      /\ sessions[s].revoked_reason = NULL
                      /\ UserActive(sessions[s].user_id)}

\* WHERE s.refresh_token_hash = $1 AND s.revoked_at IS NULL
\*   AND s.expires_at > NOW() AND u.is_active = TRUE
RefreshMatches(hash) ==
  {s \in SessionIds : /\ sessions[s].refresh_token_hash = hash
                      /\ sessions[s].revoked_reason = NULL
                      /\ ~sessions[s].expired
                      /\ UserActive(sessions[s].user_id)}

\* refreshSchema: a string of at least 20 characters.  Tokens are numbered:
\* 1, 2, ... are the values generateRefreshToken() returned, 0 is a
\* well-formed value the server never generated, -1 is too short a string.
RefreshPayloadValid(token) == token >= 0

\* POST /refresh arrives with a token.  flag records that the token had
\* already been exchanged when the request arrived.
RefreshStart(r, token) ==
  /\ Free(r)
  /\ IF ~RefreshPayloadValid(token)
       THEN Respond(r, Reply("refresh", FALSE, 400, "Invalid refresh payload"))
       ELSE /\ reqs' = [reqs EXCEPT ![r] =
                 [Idle EXCEPT !.pc = "r_select", !.op = "refresh", !.tok = token,
                              !.flag = \E x \in spent : x[1] = token]]
  /\ UNCHANGED <<limits, activity_logs, searchVars, users, terms, sessions, nextToken, spent, clientVars>>

\* rowCount === 0: ROLLBACK and 401.  note records whether some row holds
\* the presented token's hash at all.
Refresh401(r) ==
  [Reply("refresh", reqs[r].flag, 401, "Refresh token is invalid or expired")
     EXCEPT !.note = IF \E s \in SessionIds :
                          sessions[s].refresh_token_hash = hashToken(reqs[r].tok)
                       THEN "dead_session" ELSE "no_such_token"]

\* BEGIN; SELECT ... FOR UPDATE.  No row: ROLLBACK and 401.  A row locked by
\* another transaction: wait.
RefreshSelect(r) ==
  /\ reqs[r].pc = "r_select"
  /\ LET found == RefreshMatches(hashToken(reqs[r].tok))
     IN  IF found = {}
           THEN Respond(r, Refresh401(r))
         ELSE LET s == CHOOSE x \in found : TRUE
              IN  /\ IF RowLockedByOther(r, s)
                       THEN reqs' = [reqs EXCEPT ![r].pc = "r_wait", ![r].sid = s]
                       ELSE reqs' = [reqs EXCEPT ![r].pc = "r_update", ![r].sid = s,
                                                 ![r].locked = {s}]
  /\ UNCHANGED <<limits, activity_logs, searchVars, users, terms, sessions, nextToken, spent, clientVars>>

\* The blocked SELECT ... FOR UPDATE wakes up and re-checks the WHERE clause
\* on the latest version of the row it was waiting for.
RefreshSelectResume(r) ==
  /\ reqs[r].pc = "r_wait"
  /\ ~RowLockedByOther(r, reqs[r].sid)
  /\ IF reqs[r].sid \in RefreshMatches(hashToken(reqs[r].tok))
       THEN /\ reqs' = [reqs EXCEPT ![r].pc = "r_update", ![r].locked = {reqs[r].sid}]
       ELSE Respond(r, Refresh401(r))
  /\ UNCHANGED <<limits, activity_logs, searchVars, users, terms, sessions, nextToken, spent, clientVars>>

\* A rotation that leaves the stored hash as it was.
RotatedHashKept(new, old) == old

\* SET refresh_token_hash = $1: the hash the row holds after a rotation.
RotatedHash(new, old) == hashToken(new)

\* A rotation that also renews the session: SET refresh_token_hash = $1,
\* last_seen_at = NOW(), expires_at = NOW() + the time to live.
RefreshUpdateRenewing(S, s, new) ==
  [S EXCEPT ![s].refresh_token_hash = RotatedHash(new, @), ![s].expired = FALSE]

\* UPDATE user_sessions SET refresh_token_hash = $1, last_seen_at = NOW()
\* WHERE id = $2.  last_seen_at is no column of the modelled rows.
RefreshUpdate(S, s, new) ==
  [S EXCEPT ![s].refresh_token_hash = RotatedHash(new, @)]

\* The UPDATE; COMMIT; issueAccessToken({userId, sessionId: session.id,
\* username}); 200.  The answer carries the sub and sid of the access token
\* in uid and resp.sid.
RefreshCommit(r) ==
  /\ reqs[r].pc = "r_update"
  /\ nextToken <= MaxTokens
  /\ LET s == reqs[r].sid
         u == sessions[s].user_id
         accessToken == issueAccessToken(u, s, users[u].username)
     IN  /\ sessions' = RefreshUpdate(sessions, s, nextToken)
         /\ spent' = spent \cup {<<reqs[r].tok, s, nextToken>>}
         /\ Respond(r, [Reply("refresh", reqs[r].flag, 200, NULL)
                          EXCEPT !.uid = accessToken.sub, !.resp.sid = accessToken.sid])
  /\ nextToken' = nextToken + 1
  /\ UNCHANGED <<limits, activity_logs, searchVars, users, terms, clientVars>>

\* ---------------------------------------------------------------- requireAuth
TokenKinds == {"missing", "invalid", "malformed", "ok"}

\* The session SELECT of requireAuth without its revoked_at IS NULL test.
VerifyMatchesIgnoringRevocation(sid, uid) ==
  {s \in SessionIds : /\ s = sid
                      /\ sessions[s].user_id = uid
                      /\ ~sessions[s].expired
                      /\ UserActive(sessions[s].user_id)}

\* WHERE s.id = $1 AND s.user_id = $2 AND s.revoked_at IS NULL
\*   AND s.expires_at > NOW() AND u.is_active = TRUE
VerifyMatches(sid, uid) ==
  {s \in SessionIds : /\ s = sid
                      /\ sessions[s].user_id = uid
                      /\ sessions[s].revoked_reason = NULL
                      /\ ~sessions[s].expired
                      /\ UserActive(sessions[s].user_id)}

\* A protected request arrives: the Authorization header is read and
\* jwt.verify runs.  kind "invalid" is a bad signature or an expired token,
\* "malformed" a signed token whose sub or sid is unusable, "ok" a signed,
\* unexpired token.  requireAuth does not look at the route, so which handler
\* the request is for is drawn when next() runs it.  flag records that the
\* token's session was already revoked when the request arrived.
AuthStart(r, kind, token) ==
  /\ Free(r)
  /\ CASE kind = "missing" -> Respond(r, Reply("auth", FALSE, 401, "Missing bearer token"))
       [] kind = "invalid" -> Respond(r, Reply("auth", FALSE, 401, "Invalid or expired token"))
       [] kind = "malformed" -> Respond(r, Reply("auth", FALSE, 401, "Invalid token payload"))
       [] OTHER ->
            /\ token \in IssuedTokens
            /\ reqs' = [reqs EXCEPT ![r] =
                  [Idle EXCEPT !.pc = "v_check", !.op = "auth", !.uid = token.sub,
                               !.sid = token.sid,
                               !.flag = sessions[token.sid].revoked_reason # NULL]]
  /\ UNCHANGED <<limits, activity_logs, searchVars, users, terms, sessions, nextToken, spent, clientVars>>

\* requireAuth: the session SELECT; on a hit req.auth is set, last_seen_at is
\* bumped and next() runs the handler.
VerifyCheck(r) ==
  /\ reqs[r].pc = "v_check"
  /\ IF VerifyMatches(reqs[r].sid, reqs[r].uid) = {}
       THEN Respond(r, Reply("auth", reqs[r].flag, 401,
                             "Session is no longer active"))
       ELSE /\ reqs' = [reqs EXCEPT ![r].pc = "h_run"]
  /\ UNCHANGED <<limits, activity_logs, searchVars, users, terms, sessions, nextToken, spent, clientVars>>

\* requireAuth step by step.  The session SELECT: 401 on no row, else
\* req.auth is set and the UPDATE of last_seen_at is sent and awaited.
VerifySelect(r) ==
  /\ reqs[r].pc = "v_check"
  /\ IF VerifyMatches(reqs[r].sid, reqs[r].uid) = {}
       THEN Respond(r, Reply("auth", reqs[r].flag, 401,
                             "Session is no longer active"))
       ELSE /\ reqs' = [reqs EXCEPT ![r].pc = "v_bump"]
  /\ UNCHANGED <<limits, activity_logs, searchVars, users, terms, sessions, nextToken, spent, clientVars>>

\* await pool.query("UPDATE user_sessions SET last_seen_at = NOW() WHERE
\* id = $1") returns, after the lock another transaction holds on the row is
\* released, and next() runs the handler.  last_seen_at is no column of the
\* modelled rows.
Bump(r) ==
  /\ reqs[r].pc = "v_bump"
  /\ ~RowLockedByOther(r, reqs[r].sid)
  /\ reqs' = [reqs EXCEPT ![r].pc = "h_run"]
  /\ UNCHANGED <<limits, activity_logs, searchVars, users, terms, sessions, nextToken, spent, clientVars>>

\* The awaited UPDATE rejects (connection lost, statement cancelled):
\* requireAuth throws before next().  Express 5 passes the rejection to the
\* error middleware, which answers 500; Express 4 leaves the request
\* unanswered.
BumpFail(r) ==
  /\ reqs[r].pc = "v_bump"
  /\ \/ Respond(r, [Reply("auth", reqs[r].flag, 500, "Internal server error")
                      EXCEPT !.note = "bump_failed"])
     \/ reqs' = [reqs EXCEPT ![r].pc = "hung", ![r].note = "bump_failed"]
  /\ UNCHANGED <<limits, activity_logs, searchVars, users, terms, sessions, nextToken, spent, clientVars>>

\* ---------------------------------------------------------------- handlers
\* A logout whose UPDATE does not wait for the row lock of an open transaction.
LogoutThroughLock(r) ==
  /\ reqs[r].pc = "h_run"
  /\ sessions' = RevokeRows(sessions, {reqs[r].sid}, "logout")
  /\ logUserActivity("logout")
  /\ Respond(r, AfterLog(Reply("logout", reqs[r].flag, 204, NULL)))
  /\ UNCHANGED <<limits, searchVars, users, terms, nextToken, spent, clientVars>>

\* POST /logout: UPDATE ... SET revoked_at = NOW(), revoked_reason = 'logout'
\* WHERE id = $1; 204.  The statement waits for a row another transaction
\* holds.
Logout(r) ==
  /\ reqs[r].pc = "h_run"
  /\ ~RowLockedByOther(r, reqs[r].sid)
  /\ sessions' = RevokeRows(sessions, {reqs[r].sid}, "logout")
  /\ logUserActivity("logout")
  /\ Respond(r, AfterLog(Reply("logout", reqs[r].flag, 204, NULL)))
  /\ UNCHANGED <<limits, searchVars, users, terms, nextToken, spent, clientVars>>

\* A logout-all whose UPDATE lacks AND revoked_at IS NULL.
LogoutAllUnguarded(r) ==
  /\ reqs[r].pc = "h_run"
  /\ sessions' = RevokeRows(sessions,
                   {s \in SessionIds : sessions[s].user_id = reqs[r].uid}, "logout_all")
  /\ logUserActivity("logout_all")
  /\ Respond(r, AfterLog(Reply("logout_all", reqs[r].flag, 204, NULL)))
  /\ UNCHANGED <<limits, searchVars, users, terms, nextToken, spent, clientVars>>

\* POST /logout-all: UPDATE ... SET revoked_reason = 'logout_all' WHERE
\* user_id = $1 AND revoked_at IS NULL; 204.  The statement waits for rows
\* another transaction holds.
LogoutAll(r) ==
  /\ reqs[r].pc = "h_run"
  /\ LET targets == ActiveSessionsOf(reqs[r].uid)
     IN  IF \E s \in targets : RowLockedByOther(r, s)
           THEN /\ reqs' = [reqs EXCEPT ![r].pc = "h_wait", ![r].op = "logout_all",
                                        ![r].targets = targets]
                /\ UNCHANGED <<sessions, activity_logs>>
           ELSE /\ sessions' = RevokeRows(sessions, targets, "logout_all")
                /\ logUserActivity("logout_all")
                /\ Respond(r, AfterLog(Reply("logout_all", reqs[r].flag, 204, NULL)))
  /\ UNCHANGED <<limits, searchVars, users, terms, nextToken, spent, clientVars>>

LogoutAllResume(r) ==
  /\ reqs[r].pc = "h_wait"
  /\ \A s \in reqs[r].targets : ~RowLockedByOther(r, s)
  /\ sessions' = RevokeRows(sessions,
                   {s \in reqs[r].targets : sessions[s].revoked_reason = NULL}, "logout_all")
  /\ logUserActivity("logout_all")
  /\ Respond(r, AfterLog(Reply("logout_all", reqs[r].flag, 204, NULL)))
  /\ UNCHANGED <<limits, searchVars, users, terms, nextToken, spent, clientVars>>

\* GET /me: SELECT the user row; 200.
Me(r) ==
  /\ reqs[r].pc = "h_run"
  /\ IF reqs[r].uid \in UserIds
       THEN Respond(r, Reply("me", reqs[r].flag, 200, NULL))
       ELSE Respond(r, Reply("me", reqs[r].flag, 404, "User not found"))
  /\ UNCHANGED <<limits, activity_logs, searchVars, users, terms, sessions, nextToken, spent, clientVars>>

\* ---------------------------------------------------------------- environment
\* Time passes expires_at of a session still in use.
Expire(s) ==
  /\ s \in SessionIds
  /\ sessions[s].revoked_reason = NULL /\ ~sessions[s].expired
  /\ sessions' = [sessions EXCEPT ![s].expired = TRUE]
  /\ UNCHANGED <<limits, activity_logs, searchVars, users, terms, reqs, nextToken, spent, clientVars>>

\* An operator clears users.is_active.
Deactivate(u) ==
  /\ u \in UserIds /\ users[u].is_active
  /\ users' = [users EXCEPT ![u].is_active = FALSE]
  /\ UNCHANGED <<limits, activity_logs, searchVars, terms, sessions, reqs, nextToken, spent, clientVars>>

\* ---------------------------------------------------------------- web app
\* The web app (apps/web/src/lib/api.ts, App.tsx, MapShell.tsx) is one
\* JavaScript thread: the code between two awaits runs as one step.  A step
\* below is the arrival of a response together with the continuations it
\* wakes; the server handles the request at the moment it answers.
\* null for an access token and for a refresh token of the web app.
NoAccessToken == [claims |-> issueAccessToken(0, 0, NULL), iat |-> 0]
NoRefreshToken == 0

NoTokens == [accessToken |-> NoAccessToken, refreshToken |-> NoRefreshToken]

\* The pair a login or a refresh returns: a JWT signed when refresh token n
\* was stored, and that refresh token.
SessionTokens(sid, n) ==
  [accessToken |-> [claims |-> issueAccessToken(sessions[sid].user_id, sid,
                                                users[sessions[sid].user_id].username),
                    iat |-> n],
   refreshToken |-> n]

NoCall ==
  [pc |-> "idle", kind |-> NULL, accessToken |-> NoAccessToken,
   refreshToken |-> NoRefreshToken,
   awaits |-> NULL, outcome |-> NULL, denied |-> NULL]

CallKinds == {"session_check", "map"}

\* requireAuth on a call of the web app: jwt.verify, then the session SELECT.
AccessTokenAccepted(token) ==
  /\ token.iat > accessHorizon
  /\ VerifyMatches(token.claims.sid, token.claims.sub) # {}

\* The error of the 401 requireAuth answers a call of the web app with:
\* jwt.verify throws on a token the API never signed (iat 0) or one past its
\* exp, the payload check rejects a token without sub or sid, the session
\* SELECT finds no live session.
Denial(token) ==
  IF token.iat <= accessHorizon THEN "Invalid or expired token"
  ELSE IF token.claims.sub = 0 \/ token.claims.sid = 0 THEN "Invalid token payload"
  ELSE "Session is no longer active"

\* getCurrentUser(accessToken, {refreshToken, onSessionTokensUpdated}) in the
\* session-check effect of App, or a MapShell request with authRequestOptions:
\* the call captures the tokens of the render that made it and sends its
\* request.
CallStart(c, kind) ==
  /\ calls[c].pc \in {"idle", "done"}
  /\ stored # NoTokens
  /\ calls' = [calls EXCEPT ![c] = [NoCall EXCEPT !.pc = "first", !.kind = kind,
                                                  !.accessToken = stored.accessToken,
                                                  !.refreshToken = stored.refreshToken]]
  /\ UNCHANGED <<limits, activity_logs, searchVars, users, terms, sessions, reqs, nextToken, spent,
                 stored, refreshInFlight, refreshInFlightForToken, accessHorizon>>

\* authorizedRequest: the first request is answered.  On 401 the call enters
\* refreshWithLock(refreshToken): it returns the pending promise when the
\* slot holds one made for the same token, and otherwise overwrites the slot
\* and sends POST /auth/refresh.
FirstResponse(c) ==
  /\ calls[c].pc = "first"
  /\ IF AccessTokenAccepted(calls[c].accessToken)
       THEN /\ calls' = [calls EXCEPT ![c].pc = "done", ![c].outcome = "ok"]
            /\ UNCHANGED <<refreshInFlight, refreshInFlightForToken>>
       ELSE IF refreshInFlight # NULL /\ refreshInFlightForToken = calls[c].refreshToken
         THEN /\ calls' = [calls EXCEPT ![c].pc = "awaiting", ![c].awaits = refreshInFlight,
                                         ![c].denied = Denial(calls[c].accessToken)]
              /\ UNCHANGED <<refreshInFlight, refreshInFlightForToken>>
         ELSE /\ refreshInFlightForToken' = calls[c].refreshToken
              /\ refreshInFlight' = c
              /\ calls' = [calls EXCEPT ![c].pc = "refreshing", ![c].awaits = c,
                                         ![c].denied = Denial(calls[c].accessToken)]
  /\ UNCHANGED <<limits, activity_logs, searchVars, users, terms, sessions, reqs, nextToken, spent, stored, accessHorizon>>

\* The calls whose continuation runs when the promise of call c settles.
Awaiting(c) == {w \in Calls : calls[w].pc \in {"refreshing", "awaiting"} /\ calls[w].awaits = c}

\* The catch of the caller: the session-check effect runs handleLogout, a
\* MapShell request shows the message.
Surfaced(call, outcome) ==
  [call EXCEPT !.pc = IF call.kind = "session_check" THEN "logging_out" ELSE "done",
               !.awaits = NULL, !.outcome = outcome]

\* A refreshWithLock without its finally.
SlotNeverReleased(c) == UNCHANGED <<refreshInFlight, refreshInFlightForToken>>

\* finally of refreshWithLock in the call that made the promise.
SlotReleased(c) ==
  /\ refreshInFlight' = IF refreshInFlightForToken = calls[c].refreshToken
                          THEN NULL ELSE refreshInFlight
  /\ refreshInFlightForToken' = IF refreshInFlightForToken = calls[c].refreshToken
                                  THEN NoRefreshToken ELSE refreshInFlightForToken

\* POST /auth/refresh of call c is answered and its promise settles.  The
\* server rotates the token or answers 401; every call awaiting the promise
\* takes the result: onSessionTokensUpdated and the retry, or the error.
RefreshSettle(c) ==
  /\ calls[c].pc = "refreshing"
  /\ LET found == RefreshMatches(hashToken(calls[c].refreshToken))
     IN  IF found = {}
           THEN /\ calls' = [w \in Calls |->
                               IF w \in Awaiting(c) THEN Surfaced(calls[w], "refresh_failed")
                                                    ELSE calls[w]]
                /\ UNCHANGED <<sessions, nextToken, spent, stored>>
           ELSE LET s == CHOOSE x \in found : TRUE
                    rotated == SessionTokens(s, nextToken)
                IN  /\ nextToken <= MaxTokens
                    /\ sessions' = RefreshUpdate(sessions, s, nextToken)
                    /\ spent' = spent \cup {<<calls[c].refreshToken, s, nextToken>>}
                    /\ nextToken' = nextToken + 1
                    /\ stored' = rotated
                    /\ calls' = [w \in Calls |->
                                   IF w \in Awaiting(c)
                                     THEN [calls[w] EXCEPT !.pc = "retry", !.awaits = NULL,
                                                           !.accessToken = rotated.accessToken]
                                     ELSE calls[w]]
  /\ SlotReleased(c)
  /\ UNCHANGED <<limits, activity_logs, searchVars, users, terms, reqs, accessHorizon>>

\* authorizedRequest: the retry with the rotated access token is answered;
\* its error is thrown to the caller.
RetryResponse(c) ==
  /\ calls[c].pc = "retry"
  /\ IF AccessTokenAccepted(calls[c].accessToken)
       THEN calls' = [calls EXCEPT ![c].pc = "done", ![c].outcome = "ok"]
       ELSE calls' = [calls EXCEPT ![c] = Surfaced(calls[c], "retry_failed")]
  /\ UNCHANGED <<limits, activity_logs, searchVars, users, terms, sessions, reqs, nextToken, spent,
                 stored, refreshInFlight, refreshInFlightForToken, accessHorizon>>

\* handleLogout after a failed session check: logout(token), failures
\* ignored, then clearSessionTokens.  The token is the one the check started
\* with; it was refused and stays refused, so logout(token) writes nothing.
ForcedLogout(c) ==
  /\ calls[c].pc = "logging_out"
  /\ stored' = NoTokens
  /\ calls' = [calls EXCEPT ![c].pc = "done"]
  /\ UNCHANGED <<limits, activity_logs, searchVars, users, terms, sessions, reqs, nextToken, spent,
                 refreshInFlight, refreshInFlightForToken, accessHorizon>>

\* Time passes the exp of the access tokens signed up to token n.
AccessExpire(n) ==
  /\ n > accessHorizon /\ n < nextToken
  /\ accessHorizon' = n
  /\ UNCHANGED <<limits, activity_logs, searchVars, users, terms, sessions, reqs, nextToken, spent,
                 stored, refreshInFlight, refreshInFlightForToken, calls>>

\* ---------------------------------------------------------------- search
\* GET /properties/search.  Text is a sequence of characters and SQL NULL
\* text is NoText; a NULL market_value is NoValue.  county_name, acreage and
\* zoning_code are left out of the rows, and a geometry is a position on a
\* line, ST_DWithin and ST_Distance being taken between positions.
Digits == {"1", "2", "3"}
LowerCase == {"m", "s", "t"}
UpperCase == {"M", "S"}

NoText == <<NULL>>
NoValue == -1

\* String.prototype.toLowerCase / LOWER
toLowerCase(s) ==
  [i \in 1..Len(s) |-> CASE s[i] = "M" -> "m" [] s[i] = "S" -> "s" [] OTHER -> s[i]]

IsAlnum(c) == c \in Digits \cup LowerCase \cup UpperCase

RECURSIVE ReplaceFrom(_, _)
ReplaceFrom(s, i) ==
  IF i > Len(s) THEN <<>>
  ELSE IF IsAlnum(s[i]) THEN <<s[i]>> \o ReplaceFrom(s, i + 1)
  ELSE IF i > 1 /\ ~IsAlnum(s[i - 1]) THEN ReplaceFrom(s, i + 1)
  ELSE <<" ">> \o ReplaceFrom(s, i + 1)

\* REGEXP_REPLACE(s, '[^A-Za-z0-9]+', ' ', 'g') and
\* replace(/[^a-z0-9]+/g, " ") on lower-cased text: each run becomes one space.
RegexpReplace(s) == ReplaceFrom(s, 1)

COALESCE(x, y) == IF x = NoText THEN y ELSE x
NULLIF(x, y) == IF x = y THEN NoText ELSE x

\* LOWER(REGEXP_REPLACE(COALESCE(x, ''), '[^A-Za-z0-9]+', ' ', 'g')): not trimmed.
NormalizedText(x) == toLowerCase(RegexpReplace(COALESCE(x, <<>>)))

RECURSIVE trim(_)
trim(s) ==
  IF s = <<>> THEN s
  ELSE IF Head(s) = " " THEN trim(Tail(s))
  ELSE IF s[Len(s)] = " " THEN trim(SubSeq(s, 1, Len(s) - 1))
  ELSE s

\* rawQuery.toLowerCase().replace(/[^a-z0-9]+/g, " ").trim().replace(/\s+/g, " ")
normalizedQuery(rawQuery) == trim(RegexpReplace(toLowerCase(rawQuery)))

RECURSIVE split(_)
split(s) ==
  IF \A i \in 1..Len(s) : s[i] # " " THEN <<s>>
  ELSE LET k == CHOOSE i \in 1..Len(s) : s[i] = " " /\ \A j \in 1..(i - 1) : s[j] # " "
       IN  <<SubSeq(s, 1, k - 1)>> \o split(SubSeq(s, k + 1, Len(s)))

AtLeastTwo(token) == Len(token) >= 2
normalizedTokens(nq) == SelectSeq(split(nq), AtLeastTwo)

stopWords ==
  {<<"s", "t">>, <<"s", "t", "r", "e", "e", "t">>, <<"r", "d">>,
   <<"r", "o", "a", "d">>, <<"d", "r">>, <<"d", "r", "i", "v", "e">>,
   <<"a", "v", "e">>, <<"a", "v", "e", "n", "u", "e">>,
   <<"b", "l", "v", "d">>, <<"b", "o", "u", "l", "e", "v", "a", "r", "d">>,
   <<"l", "n">>, <<"l", "a", "n", "e">>, <<"c", "t">>,
   <<"c", "o", "u", "r", "t">>, <<"c", "i", "r">>,
   <<"c", "i", "r", "c", "l", "e">>, <<"t", "r", "l">>,
   <<"t", "r", "a", "i", "l">>, <<"a", "u", "s", "t", "i", "n">>,
   <<"t", "x">>, <<"t", "e", "x", "a", "s">>, <<"a", "p", "t">>,
   <<"u", "n", "i", "t">>, <<"s", "u", "i", "t", "e">>, <<"s", "t", "e">>}

NotStopWord(token) == token \notin stopWords
primaryTokens(nq) == SelectSeq(normalizedTokens(nq), NotStopWord)

tokenPatternSeed(nq) ==
  IF Len(primaryTokens(nq)) > 0 THEN primaryTokens(nq) ELSE normalizedTokens(nq)

\* /^\d+[a-z]?$/i
IsHouseNumber(token) ==
  /\ Len(token) >= 1
  /\ token[1] \in Digits
  /\ \A i \in 1..(Len(token) - 1) : token[i] \in Digits
  /\ token[Len(token)] \in Digits \cup LowerCase \cup UpperCase

streetOnlyTokenSeed(nq) ==
  IF Len(tokenPatternSeed(nq)) > 0 /\ IsHouseNumber(tokenPatternSeed(nq)[1])
    THEN Tail(tokenPatternSeed(nq))
    ELSE tokenPatternSeed(nq)

RECURSIVE join(_, _)
join(tokens, sep) ==
  IF Len(tokens) = 0 THEN <<>>
  ELSE IF Len(tokens) = 1 THEN tokens[1]
  ELSE tokens[1] \o sep \o join(Tail(tokens), sep)

\* `%${seed.slice(0, 5).join("%")}%`
TokenPattern(seed) ==
  <<"%">> \o join(SubSeq(seed, 1, IF Len(seed) < 5 THEN Len(seed) ELSE 5), <<"%">>) \o <<"%">>

\* The parameters of the search statement: $2 prefix, $3 normalizedWildcard,
\* $4 tokenWildcard, $6 normalizedQuery, $7 normalizedPrefix,
\* $8 streetOnlyWildcard.
SearchParams(q) ==
  LET rawQuery == trim(q)
      nq == normalizedQuery(rawQuery)
      normalizedWildcard == <<"%">> \o nq \o <<"%">>
  IN  [prefix |-> rawQuery \o <<"%">>,
       normalizedWildcard |-> normalizedWildcard,
       tokenWildcard |-> IF Len(tokenPatternSeed(nq)) > 0
                           THEN TokenPattern(tokenPatternSeed(nq))
                           ELSE normalizedWildcard,
       normalizedQuery |-> nq,
       normalizedPrefix |-> nq \o <<"%">>,
       streetOnlyWildcard |-> IF Len(streetOnlyTokenSeed(nq)) > 0
                                THEN TokenPattern(streetOnlyTokenSeed(nq))
                                ELSE normalizedWildcard]

\* x LIKE pattern: % is any run of characters, _ any one character; a NULL
\* x matches nothing.
RECURSIVE LikeText(_, _)
LikeText(s, p) ==
  IF p = <<>> THEN s = <<>>
  ELSE IF Head(p) = "%" THEN LikeText(s, Tail(p)) \/ (s # <<>> /\ LikeText(Tail(s), p))
  ELSE IF s = <<>> THEN FALSE
  ELSE (Head(p) = "_" \/ Head(p) = Head(s)) /\ LikeText(Tail(s), Tail(p))

LIKE(x, pattern) == x # NoText /\ LikeText(x, pattern)
ILIKE(x, pattern) == x # NoText /\ LikeText(toLowerCase(x), toLowerCase(pattern))

\* LIMIT n with no ORDER BY: the rows when there are at most n, any n of
\* them otherwise.
LimitChoices(rows, n) ==
  IF Cardinality(rows) <= n THEN {rows}
  ELSE {T \in SUBSET rows : Cardinality(T) = n}

ParcelExactLimit == 120
ParcelPrefixLimit == 220
ParcelSubstringLimit == 720
ParcelOwnerLimit == 360
ParcelKeyPrefixLimit == 220
ParcelKeySubstringLimit == 220
AddressExactLimit == 120
AddressPrefixLimit == 220
AddressSubstringLimit == 900

\* parcel_seed and parcel_prepared: the parcels some branch selects.  The
\* branches are UNION ALL and DISTINCT ON (parcel_key) keeps one row of each
\* parcel; parcel_key is UNIQUE, so the rows of a key are one parcel's.
ParcelSeeds(P) ==
  LET na(p) == NormalizedText(p.situs_address)
      nk(p) == NormalizedText(p.parcel_key)
      exact == {p \in parcels : na(p) = P.normalizedQuery}
      byPrefix == {p \in parcels : LIKE(na(p), P.normalizedPrefix)}
      bySubstring == {p \in parcels : \/ ILIKE(na(p), P.normalizedWildcard)
                                       \/ ILIKE(na(p), P.tokenWildcard)
                                       \/ ILIKE(na(p), P.streetOnlyWildcard)}
      byOwner == {p \in parcels : ILIKE(NormalizedText(p.owner_name), P.normalizedWildcard)}
      byKeyPrefix == {p \in parcels : LIKE(nk(p), P.normalizedPrefix)}
      byKeySubstring == {p \in parcels : ILIKE(nk(p), P.normalizedWildcard)}
  IN  {b1 \cup b2 \cup b3 \cup b4 \cup b5 \cup b6 :
         b1 \in LimitChoices(exact, ParcelExactLimit),
         b2 \in LimitChoices(byPrefix, ParcelPrefixLimit),
         b3 \in LimitChoices(bySubstring, ParcelSubstringLimit),
         b4 \in LimitChoices(byOwner, ParcelOwnerLimit),
         b5 \in LimitChoices(byKeyPrefix, ParcelKeyPrefixLimit),
         b6 \in LimitChoices(byKeySubstring, ParcelKeySubstringLimit)}

\* parcel_ranked: relevance_bucket of a parcel row
ParcelBucket(p, P) ==
  LET na == NormalizedText(p.situs_address)
      nk == NormalizedText(p.parcel_key)
      no == NormalizedText(p.owner_name)
  IN  CASE na = P.normalizedQuery -> 0
        [] LIKE(na, P.normalizedPrefix) -> 1
        [] LIKE(nk, P.normalizedPrefix) -> 2
        [] ILIKE(p.situs_address, P.prefix) -> 3
        [] ILIKE(na, P.normalizedWildcard) -> 4
        [] ILIKE(na, P.streetOnlyWildcard) -> 5
        [] ILIKE(na, P.tokenWildcard) -> 6
        [] ILIKE(nk, P.normalizedWildcard) -> 7
        [] ILIKE(p.owner_name, P.prefix) \/ ILIKE(no, P.normalizedWildcard) -> 8
        [] OTHER -> 9

Weight(fired, weight) == IF fired THEN weight ELSE 0

\* parcel_ranked: relevance_score of a parcel row
ParcelScore(p, P) ==
  LET na == NormalizedText(p.situs_address)
  IN  Weight(na = P.normalizedQuery, 10)
      + Weight(LIKE(na, P.normalizedPrefix), 7)
      + Weight(ILIKE(na, P.normalizedWildcard), 4)
      + Weight(ILIKE(na, P.streetOnlyWildcard), 3)
      + Weight(ILIKE(na, P.tokenWildcard), 3)
      + Weight(ILIKE(NormalizedText(p.parcel_key), P.normalizedWildcard), 2)
      + Weight(ILIKE(NormalizedText(p.owner_name), P.normalizedWildcard), 1)

parcel_ranked(p, P) ==
  [parcel_key |-> p.parcel_key, situs_address |-> p.situs_address,
   owner_name |-> p.owner_name, market_value |-> p.market_value,
   longitude |-> p.geom, dedupe_key |-> p.parcel_key, source_rank |-> 0,
   relevance_bucket |-> ParcelBucket(p, P), relevance_score |-> ParcelScore(p, P)]

\* address_seed: the address points some branch selects
AddressSeeds(P) ==
  LET exact == {ap \in address_points : ap.normalized_address = P.normalizedQuery}
      byPrefix == {ap \in address_points : LIKE(ap.normalized_address, P.normalizedPrefix)}
      bySubstring == {ap \in address_points :
                        \/ ILIKE(ap.normalized_address, P.normalizedWildcard)
                        \/ ILIKE(ap.normalized_address, P.tokenWildcard)
                        \/ ILIKE(ap.normalized_address, P.streetOnlyWildcard)}
  IN  {b1 \cup b2 \cup b3 :
         b1 \in LimitChoices(exact, AddressExactLimit),
         b2 \in LimitChoices(byPrefix, AddressPrefixLimit),
         b3 \in LimitChoices(bySubstring, AddressSubstringLimit)}

\* address_candidates: DISTINCT ON (normalized_address, county_name, x, y)
\* ordered by those columns alone keeps any one row of each group.
SameSpot(a, b) == a.normalized_address = b.normalized_address /\ a.geom = b.geom

AddressCandidates(seed) ==
  {T \in SUBSET seed :
     /\ \A a \in seed : \E b \in T : SameSpot(a, b)
     /\ \A a, b \in T : SameSpot(a, b) => a = b}

Tolerance == 1

Distance(a, b) == IF a >= b THEN a - b ELSE b - a

NoParcel ==
  [parcel_key |-> NoText, situs_address |-> NoText, owner_name |-> NoText,
   market_value |-> NoValue, geom |-> 0]

\* LEFT JOIN LATERAL (... WHERE ST_DWithin(p.geom, ap.geom, 0.0012)
\* ORDER BY ST_Distance(...) ASC LIMIT 1): a nearest parcel within the
\* tolerance, any of them when several are as near, else the NULL row.
NearestParcels(ap) ==
  LET near == {p \in parcels : Distance(p.geom, ap.geom) <= Tolerance}
  IN  IF near = {} THEN {NoParcel}
      ELSE {p \in near : \A o \in near : Distance(p.geom, ap.geom) <= Distance(o.geom, ap.geom)}

\* id::text
IdText(id) == <<<<"1", "2", "3">>[id]>>

\* address_ranked: relevance_bucket of an address point
AddressBucket(ap, P) ==
  CASE ap.normalized_address = P.normalizedQuery -> 0
    [] LIKE(ap.normalized_address, P.normalizedPrefix) -> 1
    [] ILIKE(ap.address_label, P.prefix) -> 2
    [] ILIKE(ap.normalized_address, P.normalizedWildcard) -> 3
    [] ILIKE(ap.normalized_address, P.streetOnlyWildcard) -> 4
    [] ILIKE(ap.normalized_address, P.tokenWildcard) -> 5
    [] OTHER -> 6

\* address_ranked: relevance_score of an address point
AddressScore(ap, P) ==
  Weight(ap.normalized_address = P.normalizedQuery, 10)
  + Weight(LIKE(ap.normalized_address, P.normalizedPrefix), 7)
  + Weight(ILIKE(ap.normalized_address, P.normalizedWildcard), 4)
  + Weight(ILIKE(ap.normalized_address, P.streetOnlyWildcard), 3)
  + Weight(ILIKE(ap.normalized_address, P.tokenWildcard), 2)

address_ranked(ap, p, P) ==
  LET key == COALESCE(p.parcel_key, <<"A", "D", "D", "R", "-">> \o IdText(ap.id))
  IN  [parcel_key |-> key,
       situs_address |-> COALESCE(NULLIF(ap.address_label, <<>>),
                           COALESCE(NULLIF(p.situs_address, <<>>), <<"Address unavailable">>)),
       owner_name |-> COALESCE(NULLIF(p.owner_name, <<>>), <<"Unknown">>),
       market_value |-> p.market_value,
       longitude |-> ap.geom, dedupe_key |-> key, source_rank |-> 1,
       relevance_bucket |-> AddressBucket(ap, P), relevance_score |-> AddressScore(ap, P)]

\* Text order of ORDER BY parcel_key ASC, by character code.
CharOrder == <<" ", "-", "1", "2", "3", "A", "D", "M", "R", "S", "m", "s", "t">>
CharCode(c) == CHOOSE i \in 1..Len(CharOrder) : CharOrder[i] = c

RECURSIVE TextBefore(_, _)
TextBefore(a, b) ==
  IF b = <<>> THEN FALSE
  ELSE IF a = <<>> THEN TRUE
  ELSE IF Head(a) = Head(b) THEN TextBefore(Tail(a), Tail(b))
  ELSE CharCode(Head(a)) < CharCode(Head(b))

\* market_value DESC without NULLS LAST: NULL sorts first.
ValueBeforeNullsFirst(a, b) == b # NoValue /\ (a = NoValue \/ a > b)

\* market_value DESC NULLS LAST
ValueBefore(a, b) == a # NoValue /\ (b = NoValue \/ a > b)

\* ORDER BY relevance_bucket ASC, relevance_score DESC, source_rank ASC,
\* market_value DESC NULLS LAST, parcel_key ASC
RankedBefore(a, b) ==
  \/ a.relevance_bucket < b.relevance_bucket
  \/ /\ a.relevance_bucket = b.relevance_bucket
     /\ \/ a.relevance_score > b.relevance_score
        \/ /\ a.relevance_score = b.relevance_score
           /\ \/ a.source_rank < b.source_rank
              \/ /\ a.source_rank = b.source_rank
                 /\ \/ ValueBefore(a.market_value, b.market_value)
                    \/ /\ a.market_value = b.market_value
                       /\ TextBefore(a.parcel_key, b.parcel_key)

\* combined: the rows of parcel_ranked and of address_ranked, for one choice
\* of the seeds, of the address candidates and of each candidate's parcel.
CombinedChoices(P) ==
  {{parcel_ranked(p, P) : p \in seed} \cup {address_ranked(ap, near[ap], P) : ap \in cands} :
     seed \in ParcelSeeds(P),
     cands \in UNION {AddressCandidates(s) : s \in AddressSeeds(P)},
     near \in {f \in [address_points -> parcels \cup {NoParcel}] :
                 \A ap \in address_points : f[ap] \in NearestParcels(ap)}}

\* A deduped set that keeps every row of a key.
DedupedKeepingAll(combined) == {combined}

\* deduped WHERE dedupe_rank = 1: ROW_NUMBER() numbers the rows of each
\* dedupe_key in ranked order, rows that tie in any order.
DedupedChoices(combined) ==
  {T \in SUBSET combined :
     /\ \A a \in combined : \E b \in T : b.dedupe_key = a.dedupe_key
     /\ \A a, b \in T : a.dedupe_key = b.dedupe_key => a = b
     /\ \A a \in T : \A b \in combined :
          b.dedupe_key = a.dedupe_key => ~RankedBefore(b, a)}

\* The final ORDER BY.  The keys of deduped rows differ, so no two rows tie.
RECURSIVE Ordered(_)
Ordered(rows) ==
  IF rows = {} THEN <<>>
  ELSE LET first == CHOOSE a \in rows : \A b \in rows : ~RankedBefore(b, a)
       IN  <<first>> \o Ordered(rows \ {first})

\* LIMIT $5
Limited(rows, limit) == SubSeq(rows, 1, IF Len(rows) < limit THEN Len(rows) ELSE limit)

NoLimit == -1
DefaultLimit == 20
MinLimit == 1
MaxLimit == 50

\* searchQuerySchema: q trimmed, 2 to 120 characters; limit an integer from
\* 1 to 50, 20 when absent.
QueryValid(query) ==
  /\ Len(trim(query.q)) >= 2
  /\ query.limit = NoLimit \/ (query.limit >= MinLimit /\ query.limit <= MaxLimit)

ParsedLimit(query) == IF query.limit = NoLimit THEN DefaultLimit ELSE query.limit

\* What the statement can compute: rows is the list returned; combined and
\* ranked record the candidates and the ordered list LIMIT cut.
SearchResults(query) ==
  LET P == SearchParams(query.q)
  IN  UNION {{[status |-> 200, rows |-> Limited(Ordered(kept), ParsedLimit(query)),
               ranked |-> Ordered(kept), combined |-> combined] :
                kept \in DedupedChoices(combined)} : combined \in CombinedChoices(P)}

NoSearch == [status |-> 0, rows |-> <<>>, ranked |-> <<>>, combined |-> {}]

\* GET /search behind requireAuth: 400 on a query the schema rejects, else
\* the statement runs and its rows are returned.
Search(r) ==
  /\ reqs[r].pc = "h_run"
  /\ IF QueryValid(searchQuery)
       THEN /\ \E result \in SearchResults(searchQuery) :
                 searched' = [searched EXCEPT ![r] = result]
            /\ logUserActivity("property_search")
            /\ Respond(r, AfterLog(Reply("search", reqs[r].flag, 200, NULL)))
       ELSE /\ searched' = [searched EXCEPT ![r] = [NoSearch EXCEPT !.status = 400]]
            /\ Respond(r, Reply("search", reqs[r].flag, 400, "Invalid search query"))
            /\ UNCHANGED activity_logs
  /\ UNCHANGED <<limits, users, terms, sessions, nextToken, spent, clientVars,
                 parcels, address_points, searchQuery>>

\* ---------------------------------------------------------------- lookups
\* GET /properties/by-parcel-key/:parcelKey and GET /properties/by-coordinates.
\* The request is searchQuery, with fields parcelKey and longitude; the
\* latitude is left out, positions lying on a line.

\* String.prototype.toUpperCase / UPPER
toUpperCase(s) ==
  [i \in 1..Len(s) |-> CASE s[i] = "m" -> "M" [] s[i] = "s" -> "S" [] s[i] = "t" -> "T"
                         [] OTHER -> s[i]]

ADDRESS_TOKEN_EXPANSIONS ==
  {<<<<"N">>, <<"N", "o", "r", "t", "h">>>>, <<<<"S">>, <<"S", "o", "u", "t", "h">>>>,
   <<<<"E">>, <<"E", "a", "s", "t">>>>, <<<<"W">>, <<"W", "e", "s", "t">>>>,
   <<<<"N", "E">>, <<"N", "o", "r", "t", "h", "e", "a", "s", "t">>>>,
   <<<<"N", "W">>, <<"N", "o", "r", "t", "h", "w", "e", "s", "t">>>>,
   <<<<"S", "E">>, <<"S", "o", "u", "t", "h", "e", "a", "s", "t">>>>,
   <<<<"S", "W">>, <<"S", "o", "u", "t", "h", "w", "e", "s", "t">>>>,
   <<<<"S", "T">>, <<"S", "t", "r", "e", "e", "t">>>>, <<<<"R", "D">>, <<"R", "o", "a", "d">>>>,
   <<<<"D", "R">>, <<"D", "r", "i", "v", "e">>>>,
   <<<<"A", "V", "E">>, <<"A", "v", "e", "n", "u", "e">>>>,
   <<<<"B", "L", "V", "D">>, <<"B", "o", "u", "l", "e", "v", "a", "r", "d">>>>,
   <<<<"L", "N">>, <<"L", "a", "n", "e">>>>, <<<<"C", "T">>, <<"C", "o", "u", "r", "t">>>>,
   <<<<"C", "I", "R">>, <<"C", "i", "r", "c", "l", "e">>>>,
   <<<<"P", "L">>, <<"P", "l", "a", "c", "e">>>>,
   <<<<"P", "K", "W", "Y">>, <<"P", "a", "r", "k", "w", "a", "y">>>>,
   <<<<"H", "W", "Y">>, <<"H", "i", "g", "h", "w", "a", "y">>>>,
   <<<<"T", "R", "L">>, <<"T", "r", "a", "i", "l">>>>,
   <<<<"S", "Q">>, <<"S", "q", "u", "a", "r", "e">>>>,
   <<<<"T", "E", "R">>, <<"T", "e", "r", "r", "a", "c", "e">>>>,
   <<<<"W", "A", "Y">>, <<"W", "a", "y">>>>, <<<<"T", "X">>, <<"T", "e", "x", "a", "s">>>>}

IsLetter(c) == c \in LowerCase \cup UpperCase \cup {"T"}

\* word.toLowerCase().replace(/(^|[-/'])\p{L}/gu, (match) => match.toUpperCase())
toTitleCaseWord(word) ==
  LET lower == toLowerCase(word)
  IN  [i \in 1..Len(lower) |->
         IF IsLetter(lower[i]) /\ (i = 1 \/ lower[i - 1] \in {"-", "/", "'"})
           THEN toUpperCase(<<lower[i]>>)[1]
           ELSE lower[i]]

\* One token of formatPropertyAddress: an expansion, an upper-cased house
\* number, a title-cased word, or the token as it is.
FormatToken(token) ==
  LET expanded == {e \in ADDRESS_TOKEN_EXPANSIONS : e[1] = toUpperCase(token)}
  IN  IF expanded # {} THEN (CHOOSE e \in expanded : TRUE)[2]
      ELSE IF IsHouseNumber(token) THEN toUpperCase(token)
      ELSE IF /\ Len(token) >= 1 /\ IsAlnum(token[1])
              /\ \A i \in 1..Len(token) : IsAlnum(token[i]) \/ token[i] \in {"-", "/", "'"}
        THEN toTitleCaseWord(token)
      ELSE token

NotEmpty(token) == token # <<>>

\* formatPropertyAddress(address); null is NoText.
formatPropertyAddress(address) ==
  IF address = NoText \/ address = <<>> THEN NoText
  ELSE LET tokens == SelectSeq(split(address), NotEmpty)
       IN  IF Len(tokens) = 0 THEN NoText
           ELSE join([i \in 1..Len(tokens) |-> FormatToken(tokens[i])], <<" ">>)

AddressUnavailable == <<"Address unavailable">>

\* ST_DWithin(ap.geom, ST_PointOnSurface(p.geom), 0.003), in the unit of
\* Tolerance; ST_DWithin(p.geom, pt.geom, 0.00025) is less than one unit.
LabelTolerance == 2
CandidateTolerance == 0

\* LEFT JOIN LATERAL (SELECT ap.address_label FROM address_points ap WHERE
\* ST_Intersects OR ST_DWithin ORDER BY intersects first, ST_Distance ASC
\* LIMIT 1): the label of a nearest address point, or the NULL row.
NearestLabels(p) ==
  LET near == {ap \in address_points : Distance(ap.geom, p.geom) <= LabelTolerance}
  IN  IF near = {} THEN {NoText}
      ELSE {ap.address_label : ap \in {n \in near : \A o \in near :
              Distance(n.geom, p.geom) <= Distance(o.geom, p.geom)}}

\* CASE WHEN COALESCE(NULLIF(p.situs_address, ''), '') ~ '^[0-9]'
LeadingDigit(situs_address) ==
  /\ situs_address # NoText
  /\ Len(situs_address) >= 1
  /\ situs_address[1] \in Digits

\* A lookup that keeps a situs_address with a leading digit:
\* CASE WHEN ... ~ '^[0-9]' THEN p.situs_address ELSE COALESCE(label, situs) END.
LookupAddressKeepingNumbered(p, label) ==
  IF LeadingDigit(p.situs_address)
    THEN p.situs_address
    ELSE COALESCE(NULLIF(label, <<>>), p.situs_address)

\* COALESCE(NULLIF(ap.address_label, ''), NULLIF(p.situs_address, '')) AS situs_address
LookupAddress(p, label) == COALESCE(NULLIF(label, <<>>), NULLIF(p.situs_address, <<>>))

\* res.json({parcelKey, address: formatPropertyAddress(row.situs_address) ??
\* "Address unavailable", ...})
LookupRow(p, label) ==
  [parcel_key |-> p.parcel_key, situs_address |-> LookupAddress(p, label),
   address |-> IF formatPropertyAddress(LookupAddress(p, label)) = NoText
                 THEN AddressUnavailable
                 ELSE formatPropertyAddress(LookupAddress(p, label))]

\* The lookup after its SELECT: 404 and a property_lookup_miss event when no
\* row came back, else a property_lookup_hit event and the row.
LookupAnswer(r, op, found) ==
  IF found = {}
    THEN /\ searched' = [searched EXCEPT ![r] = [NoSearch EXCEPT !.status = 404]]
         /\ logUserActivity("property_lookup_miss")
         /\ Respond(r, AfterLog(Reply(op, reqs[r].flag, 404, "Parcel not found")))
    ELSE /\ \E p \in found : \E label \in NearestLabels(p) :
              searched' = [searched EXCEPT ![r] =
                             [NoSearch EXCEPT !.status = 200, !.rows = <<LookupRow(p, label)>>]]
         /\ logUserActivity("property_lookup_hit")
         /\ Respond(r, AfterLog(Reply(op, reqs[r].flag, 200, NULL)))

\* GET /by-parcel-key/:parcelKey behind requireAuth: parcelKeyParamsSchema,
\* then WHERE UPPER(p.parcel_key) = UPPER($1) LIMIT 1.
LookupByParcelKey(r) ==
  /\ reqs[r].pc = "h_run"
  /\ LET parcelKey == trim(searchQuery.parcelKey)
     IN  IF Len(parcelKey) < 1
           THEN /\ searched' = [searched EXCEPT ![r] = [NoSearch EXCEPT !.status = 400]]
                /\ Respond(r, Reply("by-parcel-key", reqs[r].flag, 400, "Invalid parcel key"))
                /\ UNCHANGED activity_logs
           ELSE LookupAnswer(r, "by-parcel-key",
                  {p \in parcels : toUpperCase(p.parcel_key) = toUpperCase(parcelKey)})
  /\ UNCHANGED <<limits, users, terms, sessions, nextToken, spent, clientVars,
                 parcels, address_points, searchQuery>>

\* GET /by-coordinates behind requireAuth: coordinateQuerySchema, then the
\* candidate parcel: intersecting first, then nearest, LIMIT 1.
LookupByCoordinates(r) ==
  /\ reqs[r].pc = "h_run"
  /\ LET longitude == searchQuery.longitude
         near == {p \in parcels : Distance(p.geom, longitude) <= CandidateTolerance}
     IN  IF longitude < -180 \/ longitude > 180
           THEN /\ searched' = [searched EXCEPT ![r] = [NoSearch EXCEPT !.status = 400]]
                /\ Respond(r, Reply("by-coordinates", reqs[r].flag, 400, "Invalid coordinates"))
                /\ UNCHANGED activity_logs
           ELSE LookupAnswer(r, "by-coordinates",
                  {p \in near : \A o \in near :
                     Distance(p.geom, longitude) <= Distance(o.geom, longitude)})
  /\ UNCHANGED <<limits, users, terms, sessions, nextToken, spent, clientVars,
                 parcels, address_points, searchQuery>>

\* ---------------------------------------------------------------- spec
\* The users table after alice has registered.
SeededUsers ==
  <<[username |-> "alice", password_hash |-> bcryptHash(RegisterPassword),
     is_active |-> TRUE, last_login_at |-> 0]>>

\* No search data and no search request.
NoQuery == [q |-> <<>>, limit |-> NoLimit]

SearchIdle ==
  /\ parcels = {}
  /\ address_points = {}
  /\ searchQuery = NoQuery
  /\ searched = [r \in Reqs |-> NoSearch]

\* The web app before anyone has signed in.
ClientIdle ==
  /\ refreshInFlight = NULL
  /\ refreshInFlightForToken = NoRefreshToken
  /\ calls = [c \in Calls |-> NoCall]
  /\ accessHorizon = 0

Init ==
  /\ users = SeededUsers
  /\ terms = {1}
  /\ sessions = <<>>
  /\ reqs = [r \in Reqs |-> Idle]
  /\ nextToken = 1
  /\ spent = {}
  /\ stored = NoTokens
  /\ ClientIdle
  /\ activity_logs = LogOff
  /\ limits = NoLimits
  /\ SearchIdle

LoginNames == Usernames \cup {"mallory", ""}

PresentedTokens == (-1)..(nextToken - 1)

Next ==
  \/ \E r \in Reqs :
       \/ \E username \in LoginNames, password \in Passwords : LoginStart(r, username, password)
       \/ LoginRevoke(r)
       \/ LoginRevokeResume(r)
       \/ LoginInsert(r)
       \/ LoginCommit(r)
       \/ \E token \in PresentedTokens : RefreshStart(r, token)
       \/ RefreshSelect(r)
       \/ RefreshSelectResume(r)
       \/ RefreshCommit(r)
       \/ \E kind \in TokenKinds \ {"ok"} : AuthStart(r, kind, NULL)
       \/ \E token \in IssuedTokens : AuthStart(r, "ok", token)
       \/ VerifyCheck(r)
       \/ Logout(r)
       \/ LogoutAll(r)
       \/ LogoutAllResume(r)
       \/ Me(r)
  \/ \E s \in SessionIds : Expire(s)
  \/ \E u \in UserIds : Deactivate(u)

Spec == Init /\ [][Next]_vars

\* The system under well-formed requests of a registered user, every request
\* that writes user_sessions among them, with the statements of the login
\* transaction allowed to fail.
FaultNext ==
  \/ \E r \in Reqs :
       \/ \E username \in Usernames : LoginStart(r, username, RegisterPassword)
       \/ LoginRevoke(r)
       \/ LoginRevokeResume(r)
       \/ LoginInsert(r)
       \/ LoginCommit(r)
       \/ LoginAbort(r)
       \/ \E token \in 1..(nextToken - 1) : RefreshStart(r, token)
       \/ RefreshSelect(r)
       \/ RefreshSelectResume(r)
       \/ RefreshCommit(r)
       \/ \E token \in IssuedTokens : AuthStart(r, "ok", token)
       \/ VerifyCheck(r)
       \/ Logout(r)
       \/ LogoutAll(r)
       \/ LogoutAllResume(r)
       \/ Me(r)
  \/ \E s \in SessionIds : Expire(s)
  \/ \E u \in UserIds : Deactivate(u)

FaultSpec == Init /\ [][FaultNext]_vars

\* Two logins, one per handler, racing on a database that holds either no
\* session or the session an earlier login left.
AfterOneLogin ==
  /\ users = [SeededUsers EXCEPT ![1].last_login_at = 1]
  /\ sessions = <<[user_id |-> 1, refresh_token_hash |-> hashToken(1),
                   revoked_reason |-> NULL, expired |-> FALSE]>>
  /\ nextToken = 2

RaceInit ==
  /\ \/ users = SeededUsers /\ sessions = <<>> /\ nextToken = 1
     \/ AfterOneLogin
  /\ terms = {1}
  /\ reqs = [r \in Reqs |-> Idle]
  /\ spent = {}
  /\ stored = NoTokens
  /\ ClientIdle
  /\ activity_logs = LogOff
  /\ limits = NoLimits
  /\ SearchIdle

RaceNext ==
  \E r \in Reqs :
    \/ /\ reqs[r].pc = "idle"
       /\ \E username \in LoginNames, password \in Passwords : LoginStart(r, username, password)
    \/ LoginRevoke(r)
    \/ LoginRevokeResume(r)
    \/ LoginInsert(r)
    \/ LoginCommit(r)

RaceSpec == RaceInit /\ [][RaceNext]_vars

\* The web app signed in on one device, its requests served by the API.
ClientInit ==
  /\ AfterOneLogin
  /\ terms = {1}
  /\ reqs = [r \in Reqs |-> Idle]
  /\ spent = {}
  /\ stored = SessionTokens(1, 1)
  /\ ClientIdle
  /\ activity_logs = LogOff
  /\ limits = NoLimits
  /\ SearchIdle

ClientNext ==
  \/ \E c \in Calls :
       \/ \E kind \in CallKinds : CallStart(c, kind)
       \/ FirstResponse(c)
       \/ RefreshSettle(c)
       \/ RetryResponse(c)
       \/ ForcedLogout(c)
  \/ \E n \in 1..MaxTokens : AccessExpire(n)
  \/ \E s \in SessionIds : Expire(s)

ClientSpec == ClientInit /\ [][ClientNext]_vars

\* The web app starting with the pair localStorage holds: the access token
\* the API signed at login, that token with a payload that carries no sid, or
\* a token the API never signed, each with the refresh token of the login.
StoredAccessTokens ==
  {[claims |-> issueAccessToken(1, 1, "alice"), iat |-> 1],
   [claims |-> issueAccessToken(1, 0, "alice"), iat |-> 1],
   [claims |-> issueAccessToken(1, 1, "alice"), iat |-> 0]}

StoredTokenInit ==
  /\ AfterOneLogin
  /\ terms = {1}
  /\ reqs = [r \in Reqs |-> Idle]
  /\ spent = {}
  /\ \E token \in StoredAccessTokens : stored = [accessToken |-> token, refreshToken |-> 1]
  /\ ClientIdle
  /\ activity_logs = LogOff
  /\ limits = NoLimits
  /\ SearchIdle

StoredTokenSpec == StoredTokenInit /\ [][ClientNext]_vars

\* requireAuth with its awaited last_seen_at UPDATE as a step of its own,
\* beside refreshes that lock the session row, on a database where the
\* UPDATE can fail.
BumpInit ==
  /\ AfterOneLogin
  /\ terms = {1}
  /\ reqs = [r \in Reqs |-> Idle]
  /\ spent = {}
  /\ stored = NoTokens
  /\ ClientIdle
  /\ activity_logs = LogOff
  /\ limits = NoLimits
  /\ SearchIdle

BumpNext ==
  \E r \in Reqs :
    \/ \E token \in IssuedTokens : AuthStart(r, "ok", token)
    \/ VerifySelect(r)
    \/ Bump(r)
    \/ BumpFail(r)
    \/ Me(r)
    \/ /\ nextToken <= MaxTokens
       /\ \E token \in 1..(nextToken - 1) : RefreshStart(r, token)
    \/ RefreshSelect(r)
    \/ RefreshSelectResume(r)
    \/ RefreshCommit(r)

BumpSpec == BumpInit /\ [][BumpNext]_vars

\* POST /logout-all as a function of the table: user_sessions is drawn from
\* the tables of up to MaxRows rows of two registered users, tables with
\* several unrevoked rows of one user among them.
TwoUsers ==
  SeededUsers \o <<[username |-> "bob", password_hash |-> bcryptHash(RegisterPassword),
                    is_active |-> TRUE, last_login_at |-> 0]>>

TableRows(n) ==
  [user_id : {1, 2}, refresh_token_hash : {hashToken(n)},
   revoked_reason : {NULL, "logout"}, expired : {FALSE}]

Tables ==
  UNION {{S \in [1..n -> UNION {TableRows(i) : i \in 1..n}] :
            \A i \in 1..n : S[i] \in TableRows(i)} : n \in 0..MaxRows}

LogoutAllInit ==
  /\ users = TwoUsers
  /\ terms = {1, 2}
  /\ sessions \in Tables
  /\ nextToken = Len(sessions) + 1
  /\ reqs = [r \in Reqs |-> Idle]
  /\ spent = {}
  /\ stored = NoTokens
  /\ ClientIdle
  /\ activity_logs = LogOff
  /\ limits = NoLimits
  /\ SearchIdle

LogoutAllNext ==
  \E r \in Reqs :
    \/ \E token \in IssuedTokens : AuthStart(r, "ok", token)
    \/ VerifyCheck(r)
    \/ LogoutAll(r)

LogoutAllSpec == LogoutAllInit /\ [][LogoutAllNext]_vars

\* GET /search as a function of the data: two requests that requireAuth has
\* passed carry the same query, over parcels and address points drawn from
\* small tables.  Parcels "12" and "123" lie on one spot, parcel "3" apart;
\* an address point lies on that spot or away from every parcel.
ParcelGeom(key) == IF key = <<"3">> THEN 3 ELSE 0

ParcelRows(key) ==
  IF key = <<"3">>
    THEN [parcel_key : {key}, situs_address : {NoText},
          owner_name : {<<"S", " ", "1", "2">>}, market_value : {NoValue, 2},
          geom : {ParcelGeom(key)}]
    ELSE [parcel_key : {key}, situs_address : {NoText, <<"1", "2", "-", "M">>},
          owner_name : {<<"S">>}, market_value : {NoValue, 1, 2},
          geom : {ParcelGeom(key)}]

ParcelKeys == {<<"1", "2">>, <<"1", "2", "3">>, <<"3">>}

ParcelTables ==
  {T \in SUBSET UNION {ParcelRows(key) : key \in ParcelKeys} :
     \A a, b \in T : a.parcel_key = b.parcel_key => a = b}

PointIds == {1, 2}

PointRows(id) ==
  {[id |-> id, address_label |-> label, normalized_address |-> NormalizedText(label),
    geom |-> geom] : label \in {<<"1", "2", " ", "M">>, <<"1", "2", " ", "S">>},
                     geom \in {0, 5}}

PointTables ==
  {T \in SUBSET UNION {PointRows(id) : id \in PointIds} :
     \A a, b \in T : a.id = b.id => a = b}

SearchInputs ==
  {[q |-> <<"1", "2">>, limit |-> NoLimit], [q |-> <<"1", "2">>, limit |-> 1],
   [q |-> <<" ", "1", "2">>, limit |-> 2], [q |-> <<"1", " ">>, limit |-> NoLimit],
   [q |-> <<"1", "2">>, limit |-> 0], [q |-> <<"1", "2">>, limit |-> 51]}

SearchInit ==
  /\ AfterOneLogin
  /\ terms = {1}
  /\ reqs = [r \in Reqs |-> [Idle EXCEPT !.pc = "h_run", !.op = "auth", !.uid = 1, !.sid = 1]]
  /\ spent = {}
  /\ stored = NoTokens
  /\ ClientIdle
  /\ activity_logs = LogOff
  /\ limits = NoLimits
  /\ parcels \in ParcelTables
  /\ address_points \in PointTables
  /\ searchQuery \in SearchInputs
  /\ searched = [r \in Reqs |-> NoSearch]

SearchNext == \E r \in Reqs : Search(r)

SearchSpec == SearchInit /\ [][SearchNext]_vars

\* The API with user_activity_logs followed: registration, login, logout,
\* logout of every device, search and the two lookups, over one parcel that
\* the parcel key of the request names and its coordinates miss.  Both
\* handlers take logins; h2 takes the registrations and h1 the requests
\* behind requireAuth.
ActivityInit ==
  /\ users = SeededUsers
  /\ terms = {1}
  /\ sessions = <<>>
  /\ reqs = [r \in Reqs |-> Idle]
  /\ nextToken = 1
  /\ spent = {}
  /\ stored = NoTokens
  /\ ClientIdle
  /\ activity_logs = LogEmpty
  /\ limits = NoLimits
  /\ parcels = {[parcel_key |-> <<"1", "2">>, situs_address |-> NoText,
                 owner_name |-> <<"S">>, market_value |-> 1,
                 geom |-> ParcelGeom(<<"1", "2">>)]}
  /\ address_points = {}
  /\ searchQuery = [q |-> <<"1", "2">>, limit |-> NoLimit,
                    parcelKey |-> <<"1", "2">>, longitude |-> 3]
  /\ searched = [r \in Reqs |-> NoSearch]

ActivityNext ==
  \E r \in Reqs :
    \/ /\ Len(users) < 2 /\ r = "h2"
       /\ \E username \in {"alice", "bob"} : RegisterInsert(r, username)
    \/ RegisterTerms(r)
    \/ \E username \in LoginNames, password \in Passwords : LoginStart(r, username, password)
    \/ LoginRevoke(r)
    \/ LoginRevokeResume(r)
    \/ LoginInsert(r)
    \/ LoginCommit(r)
    \/ r = "h1" /\ \E token \in IssuedTokens : AuthStart(r, "ok", token)
    \/ VerifyCheck(r)
    \/ Logout(r)
    \/ LogoutAll(r)
    \/ LogoutAllResume(r)
    \/ Search(r)
    \/ LookupByParcelKey(r)
    \/ LookupByCoordinates(r)

ActivitySpec == ActivityInit /\ [][ActivityNext]_vars

\* The two lookups as functions of the data: requests that requireAuth has
\* passed, over the parcels and address points of the search.
LookupInputs ==
  {[parcelKey |-> <<"1", "2">>, longitude |-> 0], [parcelKey |-> <<"3", " ">>, longitude |-> 3],
   [parcelKey |-> <<" ">>, longitude |-> 181], [parcelKey |-> <<"2">>, longitude |-> 1]}

LookupPointRows(id) ==
  {[id |-> id, address_label |-> label, normalized_address |-> NormalizedText(label),
    geom |-> geom] : label \in {<<"1", "2", " ", "s">>, <<>>}, geom \in {0, 2}}

LookupInit ==
  /\ AfterOneLogin
  /\ terms = {1}
  /\ reqs = [r \in Reqs |-> [Idle EXCEPT !.pc = "h_run", !.op = "auth", !.uid = 1, !.sid = 1]]
  /\ spent = {}
  /\ stored = NoTokens
  /\ ClientIdle
  /\ activity_logs = LogOff
  /\ limits = NoLimits
  /\ parcels \in {T \in SUBSET UNION {
                     [parcel_key : {key},
                      situs_address : {NoText, <<>>, <<"1", "2", "-", "M">>, <<"M", " ", "s", "t">>},
                      owner_name : {<<"S">>}, market_value : {1},
                      geom : {ParcelGeom(key)}] : key \in {<<"1", "2">>, <<"3">>}} :
                   \A a, b \in T : a.parcel_key = b.parcel_key => a = b}
  /\ address_points \in {T \in SUBSET UNION {LookupPointRows(id) : id \in PointIds} :
                          \A a, b \in T : a.id = b.id => a = b}
  /\ searchQuery \in LookupInputs
  /\ searched = [r \in Reqs |-> NoSearch]

LookupNext == \E r \in Reqs : LookupByParcelKey(r) \/ LookupByCoordinates(r)

LookupSpec == LookupInit /\ [][LookupNext]_vars

\* One IP sending logins and registrations through the limiters.
RateInit ==
  /\ users = SeededUsers
  /\ terms = {1}
  /\ sessions = <<>>
  /\ reqs = [r \in Reqs |-> Idle]
  /\ nextToken = 1
  /\ spent = {}
  /\ stored = NoTokens
  /\ ClientIdle
  /\ activity_logs = LogOff
  /\ limits = NoLimits
  /\ SearchIdle

RateNext == LimitedLogin \/ LimitedRegister \/ Tick

RateSpec == RateInit /\ [][RateNext]_vars

\* POST /refresh as a function of the table: user_sessions holds two rows of
\* two registered users, each revoked or not, with the hashes of refresh
\* tokens handed out earlier; requests present those tokens, the ones
\* rotated since, or one the server never made, while time passes.
SeedToken(i) == MaxTokens + i

RefreshTables ==
  {S \in [1..2 -> UNION {TableRows(SeedToken(i)) : i \in 1..2}] :
     /\ \A i \in 1..2 : S[i] \in TableRows(SeedToken(i))
     /\ \A i, j \in 1..2 :
          (i # j /\ S[i].user_id = S[j].user_id) =>
            (S[i].revoked_reason # NULL \/ S[j].revoked_reason # NULL)}

RefreshInit ==
  /\ users = TwoUsers
  /\ terms = {1, 2}
  /\ sessions \in RefreshTables
  /\ nextToken = 1
  /\ reqs = [r \in Reqs |-> Idle]
  /\ spent = {}
  /\ stored = NoTokens
  /\ ClientIdle
  /\ activity_logs = LogOff
  /\ limits = NoLimits
  /\ SearchIdle

RefreshNext ==
  \/ \E r \in Reqs :
       \/ \E token \in {SeedToken(1), SeedToken(2)} \cup (0..(nextToken - 1)) :
            RefreshStart(r, token)
       \/ RefreshSelect(r)
       \/ RefreshSelectResume(r)
       \/ RefreshCommit(r)
  \/ \E s \in SessionIds : Expire(s)

RefreshSpec == RefreshInit /\ [][RefreshNext]_vars

\* Logins, failing ones among them, against a database that holds the
\* session of an earlier login, while an operator may deactivate the account.
FailedLoginInit ==
  /\ AfterOneLogin
  /\ terms = {1}
  /\ reqs = [r \in Reqs |-> Idle]
  /\ spent = {}
  /\ stored = NoTokens
  /\ ClientIdle
  /\ activity_logs = LogOff
  /\ limits = NoLimits
  /\ SearchIdle

FailedLoginNext ==
  \/ \E r \in Reqs :
       \/ \E username \in LoginNames, password \in Passwords : LoginStart(r, username, password)
       \/ LoginRevoke(r)
       \/ LoginRevokeResume(r)
       \/ LoginInsert(r)
       \/ LoginCommit(r)
  \/ \E u \in UserIds : Deactivate(u)

FailedLoginSpec == FailedLoginInit /\ [][FailedLoginNext]_vars

\* Registrations under three usernames, one of them taken, with the
\* statements of the handler allowed to fail.
RegisterNames == {"alice", "bob", "carol"}

RegisterInit ==
  /\ users = SeededUsers
  /\ terms = {1}
  /\ sessions = <<>>
  /\ reqs = [r \in Reqs |-> Idle]
  /\ nextToken = 1
  /\ spent = {}
  /\ stored = NoTokens
  /\ ClientIdle
  /\ activity_logs = LogOff
  /\ limits = NoLimits
  /\ SearchIdle

RegisterNext ==
  \E r \in Reqs :
    \/ \E username \in RegisterNames : RegisterInsert(r, username)
    \/ RegisterTerms(r)
    \/ RegisterTermsFail(r)

RegisterSpec == RegisterInit /\ [][RegisterNext]_vars

\* ---------------------------------------------------------------- properties
Unauthorized(message) == [status |-> 401, error |-> message, sid |-> 0]

\* C1: at every moment each user has at most one session row whose revoked_at
\* is NULL, whatever logins, refreshes, logouts and failures interleave.
OneActiveSessionPerUser ==
  \A u \in UserIds : Cardinality(ActiveSessionsOf(u)) <= 1

\* A login was refused by the unique index while the user's one session stays.
OneActiveSessionPerUserWitness ==
  \E r \in Reqs :
    /\ reqs[r].pc = "done" /\ reqs[r].op = "login"
    /\ reqs[r].resp.status = 500 /\ reqs[r].note = "duplicate_key"
    /\ Cardinality(ActiveSessionsOf(1)) = 1
    /\ Len(sessions) = 2

\* C2: a protected request whose token passes jwt.verify but whose session
\* was already revoked when the request arrived never reaches its handler and
\* is answered 401 "Session is no longer active".
RevokedSessionRejected ==
  \A r \in Reqs :
    (reqs[r].op \in {"auth", "logout", "logout_all", "me"} /\ reqs[r].flag) =>
       /\ reqs[r].pc \in {"v_check", "done"}
       /\ reqs[r].pc = "done" => reqs[r].resp = Unauthorized("Session is no longer active")

\* Such a request has been answered, for a session that has not expired.
RevokedSessionRejectedWitness ==
  \E r \in Reqs :
    /\ reqs[r].pc = "done" /\ reqs[r].op = "auth" /\ reqs[r].flag
    /\ reqs[r].resp = Unauthorized("Session is no longer active")
    /\ \A s \in SessionIds : ~sessions[s].expired
    /\ \A u \in UserIds : UserActive(u)

\* C3: a successful refresh stores a new token in place of the old one, and a
\* refresh presenting a token that was already exchanged is answered 401
\* without locking or changing any row.
RefreshSingleUse ==
  /\ \A x \in spent :
        /\ x[3] # x[1]
        /\ RefreshMatches(hashToken(x[1])) = {}
        /\ \A s \in SessionIds : sessions[s].refresh_token_hash # hashToken(x[1])
  /\ \A r \in Reqs :
        (reqs[r].op = "refresh" /\ reqs[r].flag) =>
           /\ reqs[r].pc \in {"r_select", "done"}
           /\ reqs[r].pc = "done" =>
                 reqs[r].resp = Unauthorized("Refresh token is invalid or expired")

\* An exchanged token was presented again and refused while its session is
\* still live and holds the token the exchange returned.
RefreshSingleUseWitness ==
  \E r \in Reqs, x \in spent :
    /\ reqs[r].pc = "done" /\ reqs[r].op = "refresh" /\ reqs[r].flag
    /\ reqs[r].resp = Unauthorized("Refresh token is invalid or expired")
    /\ RefreshMatches(hashToken(x[3])) = {x[2]}

\* C6: of two refreshes that present the same token at the same time at most
\* one exchanges it: no token is ever exchanged twice, and a transaction that
\* holds the row lock never holds a token that was already exchanged.
RefreshExchangedOnce ==
  /\ \A x, y \in spent : x[1] = y[1] => x = y
  /\ \A r \in Reqs :
        reqs[r].pc = "r_update" => ~\E x \in spent : x[1] = reqs[r].tok

\* One refresh has exchanged the token while the other, which arrived before
\* the exchange, still waits for the row.
RefreshExchangedOnceWitness ==
  \E r, q \in Reqs, x \in spent :
    /\ reqs[r].pc = "done" /\ reqs[r].op = "refresh" /\ reqs[r].resp.status = 200
    /\ reqs[q].pc = "r_wait" /\ ~reqs[q].flag
    /\ reqs[q].tok = x[1] /\ reqs[q].sid = x[2]

\* A later login of the same user has committed a session.
SupersededBy(s) ==
  \E s2 \in SessionIds : s2 > s /\ sessions[s2].user_id = sessions[s].user_id

SupersedingLoginStep ==
  \A r \in Reqs :
    /\ (reqs[r].pc = "l_commit" /\ reqs'[r].resp.status = 200) =>
          /\ \A s \in ActiveSessionsOf(reqs[r].uid) :
                sessions'[s].revoked_reason = "replaced_by_new_login"
          /\ sessions'[reqs'[r].resp.sid].revoked_reason = NULL
          /\ sessions'[reqs'[r].resp.sid].user_id = reqs[r].uid
    /\ (reqs[r].pc = "v_check" /\ reqs'[r].pc # "v_check") =>
          IF SupersededBy(reqs[r].sid)
            THEN reqs'[r] = Reply("auth", reqs[r].flag, 401, "Session is no longer active")
          ELSE IF /\ sessions[reqs[r].sid].revoked_reason = NULL
                  /\ ~sessions[reqs[r].sid].expired
                  /\ UserActive(reqs[r].uid)
            THEN reqs'[r].pc = "h_run"
          ELSE TRUE

\* C4: when a second login of a user commits, the session the first login
\* left is revoked with reason replaced_by_new_login; from then on a protected
\* call with the first login's access token is answered 401 "Session is no
\* longer active", and one with the second login's token reaches its handler.
SupersedingLogin == [][SupersedingLoginStep]_vars

\* Device A's session is replaced, a call with A's token was refused and a
\* call with B's token was served.
SupersedingLoginWitness ==
  /\ Len(sessions) = 2
  /\ sessions[1].revoked_reason = "replaced_by_new_login"
  /\ sessions[2].revoked_reason = NULL
  /\ reqs["h1"] = Reply("auth", TRUE, 401, "Session is no longer active")
  /\ reqs["h2"] = Reply("me", FALSE, 200, NULL)

\* Both racing logins have run their transaction to its end.
RaceSettled ==
  \A r \in Reqs :
    reqs[r].pc = "done" /\ reqs[r].op = "login" /\ reqs[r].resp.status \in {200, 500}

\* C5: once two concurrent logins of one user have both finished, exactly one
\* session of the user is unrevoked, it is the session one of the two logins
\* created, and every other session, the one active before the race
\* included, is revoked.
ConcurrentLoginsSafe ==
  RaceSettled =>
    \E r \in Reqs :
      /\ reqs[r].resp.status = 200
      /\ \A u \in UserIds : ActiveSessionsOf(u) = {reqs[r].resp.sid}

\* The two transactions overlapped: one committed, the other met the unique
\* index, and the session from before the race is revoked.
ConcurrentLoginsSafeWitness ==
  /\ RaceSettled
  /\ \E r \in Reqs : reqs[r].note = "duplicate_key"
  /\ Len(sessions) = 2
  /\ sessions[1].revoked_reason = "replaced_by_new_login"
  /\ sessions[2].revoked_reason = NULL

\* C9: a login with a wrong password is answered the same whether or not the
\* username exists.
LoginHidesUsernames ==
  \A r, q \in Reqs :
    ( /\ reqs[r].pc = "done" /\ reqs[r].op = "login" /\ reqs[r].flag
      /\ reqs[q].pc = "done" /\ reqs[q].op = "login" /\ reqs[q].flag
      /\ reqs[r].note = "user_not_found" /\ reqs[q].note # "user_not_found" )
    => reqs[r].resp = reqs[q].resp

\* C10: the rows and the stamp of a login are committed together or not at
\* all: every user has as many session rows as last_login_at stamps, and a
\* session revoked with reason replaced_by_new_login always has a later
\* session of the same user, also after a login failed in mid-transaction.
LoginAtomic ==
  /\ \A u \in UserIds :
        Cardinality({s \in SessionIds : sessions[s].user_id = u}) = users[u].last_login_at
  /\ \A s \in SessionIds :
        sessions[s].revoked_reason = "replaced_by_new_login" => SupersededBy(s)

\* A login failed after its revoking UPDATE and the prior session is intact.
LoginAtomicWitness ==
  \E r \in Reqs :
    /\ reqs[r].pc = "done" /\ reqs[r].op = "login"
    /\ reqs[r].note = "aborted_after_revoke"
    /\ Len(sessions) = 1
    /\ sessions[1].revoked_reason = NULL

\* C7: while POST /auth/refresh for a refresh token is in flight, a call that
\* enters the refresh path with the same token sends no second POST.
RefreshCoalesced ==
  \A c, d \in Calls :
    (c # d /\ calls[c].pc = "refreshing" /\ calls[d].pc = "refreshing")
      => calls[c].refreshToken # calls[d].refreshToken

\* C8: when a call that held a refresh token has surfaced its 401, because
\* the refresh failed or the retry failed, the app holds no tokens any more.
FailedCallForcesRelogin ==
  \A c \in Calls :
    (calls[c].pc = "done" /\ calls[c].outcome \in {"refresh_failed", "retry_failed"})
      => stored = NoTokens

\* The sessions a refresh token is good for: the row holds its hash, is
\* unrevoked and unexpired, and its user is active.
LiveSessionsFor(token) ==
  {s \in SessionIds : /\ sessions[s].refresh_token_hash = hashToken(token)
                      /\ sessions[s].revoked_reason = NULL
                      /\ ~sessions[s].expired
                      /\ users[sessions[s].user_id].is_active}

RefreshLookupStep ==
  \A r \in Reqs :
    /\ (reqs[r].pc \in {"r_select", "r_wait"} /\ reqs'[r] # reqs[r]) =>
          /\ sessions' = sessions
          /\ IF LiveSessionsFor(reqs[r].tok) = {}
               THEN /\ reqs'[r].pc = "done"
                    /\ reqs'[r].resp = Unauthorized("Refresh token is invalid or expired")
               ELSE /\ reqs'[r].pc \in {"r_wait", "r_update"}
                    /\ reqs'[r].sid \in LiveSessionsFor(reqs[r].tok)
    /\ (reqs[r].pc # "done" /\ reqs'[r].op = "refresh" /\ reqs'[r].resp.status = 200) =>
          /\ reqs[r].pc = "r_update"
          /\ sessions[reqs[r].sid].refresh_token_hash = hashToken(reqs[r].tok)
          /\ sessions[reqs[r].sid].revoked_reason = NULL

\* C11: the refresh lookup lets a request through only for a token whose
\* hash is held by an unrevoked, unexpired session of an active user; for a
\* token of a revoked or expired session, of an inactive user, or an unknown
\* token it answers 401 and leaves every session row as it was.
RefreshLookup == [][RefreshLookupStep]_vars

\* Refreshes were refused for a token no row holds and for the token of a
\* session that is revoked.
RefreshLookupWitness ==
  /\ reqs["h1"].pc = "done" /\ reqs["h1"].op = "refresh"
  /\ reqs["h1"].resp.status = 401 /\ reqs["h1"].note = "no_such_token"
  /\ reqs["h2"].pc = "done" /\ reqs["h2"].op = "refresh"
  /\ reqs["h2"].resp.status = 401 /\ reqs["h2"].note = "dead_session"
  /\ Len(sessions) = 1 /\ sessions[1].revoked_reason = "logout"

RevokedIsTerminalStep ==
  /\ Len(sessions') >= Len(sessions)
  /\ \A s \in SessionIds :
        /\ sessions'[s].user_id = sessions[s].user_id
        /\ sessions[s].revoked_reason # NULL =>
              /\ sessions'[s].revoked_reason # NULL
              /\ sessions'[s].refresh_token_hash = sessions[s].refresh_token_hash
  /\ \A r \in Reqs :
        (reqs[r].pc # "done" /\ reqs'[r].op = "login" /\ reqs'[r].resp.status = 200) =>
          /\ Len(sessions') = Len(sessions) + 1
          /\ reqs'[r].resp.sid = Len(sessions')

\* C12: a session row that is revoked stays revoked and keeps its refresh
\* token hash whatever login, refresh, logout, logout-all or requireAuth do
\* afterwards, and a successful login always adds a new row.
RevokedIsTerminal == [][RevokedIsTerminalStep]_vars

\* A session was revoked, a later login added a new row, and a refresh with
\* the revoked session's token was refused.
RevokedIsTerminalWitness ==
  /\ Len(sessions) = 2
  /\ sessions[1].revoked_reason # NULL /\ sessions[1].refresh_token_hash = hashToken(1)
  /\ sessions[2].revoked_reason = NULL
  /\ \E r \in Reqs : /\ reqs[r].pc = "done" /\ reqs[r].op = "refresh"
                      /\ reqs[r].note = "dead_session"

LogoutStep ==
  \A r \in Reqs :
    /\ (reqs[r].pc = "h_run" /\ reqs'[r].op = "logout") =>
          /\ reqs'[r].resp.status = 204
          /\ sessions'[reqs[r].sid] =
                [sessions[reqs[r].sid] EXCEPT !.revoked_reason = "logout"]
          /\ \A x \in SessionIds \ {reqs[r].sid} : sessions'[x] = sessions[x]
          /\ Len(sessions') = Len(sessions)
    /\ ( /\ reqs[r].pc = "v_check" /\ reqs'[r] # reqs[r]
         /\ sessions[reqs[r].sid].revoked_reason = "logout" ) =>
          reqs'[r].resp = Unauthorized("Session is no longer active")
    /\ ( /\ reqs[r].pc \in {"r_select", "r_wait"} /\ reqs'[r] # reqs[r]
         /\ \E s \in SessionIds : /\ sessions[s].revoked_reason = "logout"
                                   /\ sessions[s].refresh_token_hash = hashToken(reqs[r].tok) ) =>
          reqs'[r].resp = Unauthorized("Refresh token is invalid or expired")

\* C13: logout sets revoked_reason 'logout' on the one session its access
\* token names and changes no other row; from then on requireAuth refuses
\* that session's access token and refresh refuses its refresh token, both
\* with 401.
LogoutRevokesNamedSession == [][LogoutStep]_vars

\* After a logout next to an older session, the logged-out session's access
\* token and refresh token were both refused.
LogoutRevokesNamedSessionWitness ==
  /\ Len(sessions) = 2
  /\ sessions[1].revoked_reason = "replaced_by_new_login"
  /\ sessions[2].revoked_reason = "logout"
  /\ reqs["h1"] = Reply("auth", TRUE, 401, "Session is no longer active")
  /\ reqs["h2"].pc = "done" /\ reqs["h2"].op = "refresh"
  /\ reqs["h2"].resp.status = 401 /\ reqs["h2"].note = "dead_session"

LogoutAllStep ==
  \A r \in Reqs :
    (reqs[r].pc = "h_run" /\ reqs'[r].op = "logout_all" /\ reqs'[r].pc = "done") =>
      /\ reqs'[r].resp.status = 204
      /\ Len(sessions') = Len(sessions)
      /\ \A s \in SessionIds :
            sessions'[s] =
              IF sessions[s].user_id = reqs[r].uid /\ sessions[s].revoked_reason = NULL
                THEN [sessions[s] EXCEPT !.revoked_reason = "logout_all"]
                ELSE sessions[s]
      /\ \A s \in SessionIds :
            ~(sessions'[s].user_id = reqs[r].uid /\ sessions'[s].revoked_reason = NULL)

\* C14: logout-all sets revoked_reason 'logout_all' on every unrevoked session
\* of the caller, however many there are, and changes nothing else; no
\* unrevoked session of the caller is left, so a second logout-all on the
\* result changes no row and revoked sessions keep their reason.
LogoutAllIdempotent == [][LogoutAllStep]_vars

\* Two logout-all requests of one user have both run on a table that held
\* two unrevoked sessions of that user and one of the other user.
LogoutAllIdempotentWitness ==
  /\ \A r \in Reqs : reqs[r].pc = "done" /\ reqs[r].op = "logout_all"
  /\ Len(sessions) = 3
  /\ Cardinality({s \in SessionIds : sessions[s].revoked_reason = "logout_all"}) = 2
  /\ \E s \in SessionIds : sessions[s].revoked_reason = NULL

\* C15: a search for a string equal to a parcel's key returns that parcel as
\* the first result.
ExactKeyFirst ==
  \A r \in Reqs :
    (searched[r].status = 200 /\ \E p \in parcels : p.parcel_key = trim(searchQuery.q)) =>
      /\ Len(searched[r].rows) >= 1
      /\ searched[r].rows[1].parcel_key = trim(searchQuery.q)

\* The sort key of a row: bucket, score negated, source rank.
SortKey(a) == <<a.relevance_bucket, 0 - a.relevance_score, a.source_rank>>

KeyBefore(x, y) ==
  \E i \in 1..Len(x) : x[i] < y[i] /\ \A j \in 1..(i - 1) : x[j] = y[j]

InOrder(a, b) ==
  \/ KeyBefore(SortKey(a), SortKey(b))
  \/ /\ SortKey(a) = SortKey(b)
     /\ \/ a.market_value # NoValue /\ b.market_value = NoValue
        \/ a.market_value > b.market_value
        \/ a.market_value = b.market_value /\ TextBefore(a.parcel_key, b.parcel_key)

RefreshOnlyOnDeadOrExpired ==
  /\ \A r \in Reqs :
       (reqs[r].pc = "done" /\ reqs[r].op = "auth") =>
         /\ reqs[r].resp.status = 401
         /\ reqs[r].resp.error \in {"Missing bearer token", "Invalid or expired token",
                                    "Invalid token payload", "Session is no longer active"}
  /\ \A c \in Calls :
       calls[c].pc \in {"refreshing", "awaiting", "retry"} =>
         calls[c].denied \in {"Session is no longer active", "Invalid or expired token"}

BumpNonBlockingStep ==
  \A r \in Reqs :
    (reqs[r].pc = "v_bump" /\ reqs'[r] # reqs[r]) => reqs'[r].pc = "h_run"

\* C20: a request that passed the session SELECT of requireAuth reaches its
\* handler, whatever becomes of the last_seen_at UPDATE: no failure of the
\* UPDATE answers the request or leaves it unanswered.
BumpNonBlocking == [][BumpNonBlockingStep]_vars

\* What the request in slot r has answered and done in a step that logs
\* event: the status and the writes of the operation itself.
LoggedOutcome(r, event) ==
  LET status == reqs'[r].resp.status
  IN  CASE event = "user_registered" ->
             /\ reqs'[r].op = "register"
             /\ status = 201 /\ terms' = terms \cup {reqs[r].uid}
             /\ users' = users /\ sessions' = sessions
        [] event = "login_failed" ->
             /\ reqs'[r].op = "login"
             /\ status \in {401, 403} /\ users' = users /\ sessions' = sessions
        [] event = "login_success" ->
             /\ reqs'[r].op = "login"
             /\ status = 200 /\ Len(sessions') = Len(sessions) + 1
             /\ sessions'[Len(sessions')].revoked_reason = NULL
             /\ sessions'[Len(sessions')].user_id = reqs[r].uid
        [] event = "logout" ->
             /\ reqs'[r].op = "logout"
             /\ status = 204 /\ sessions'[reqs[r].sid].revoked_reason # NULL
             /\ users' = users
        [] event = "logout_all" ->
             /\ reqs'[r].op = "logout_all"
             /\ status = 204 /\ users' = users
             /\ \E targets \in SUBSET ActiveSessionsOf(reqs[r].uid) :
                  sessions' = RevokeRows(sessions, targets, "logout_all")
        [] event = "property_search" ->
             /\ reqs'[r].op = "search"
             /\ status = 200 /\ searched'[r].status = 200
             /\ users' = users /\ sessions' = sessions
        [] event = "property_lookup_hit" ->
             /\ reqs'[r].op \in {"by-parcel-key", "by-coordinates"}
             /\ status = 200 /\ searched'[r].status = 200
             /\ users' = users /\ sessions' = sessions
        [] event = "property_lookup_miss" ->
             /\ reqs'[r].op \in {"by-parcel-key", "by-coordinates"}
             /\ status = 404 /\ searched'[r].status = 404
             /\ users' = users /\ sessions' = sessions

\* C21: a failure of the activity-log write is swallowed: the step in which
\* the INSERT into user_activity_logs fails answers with the status of the
\* operation and does the operation's writes to users, terms and sessions,
\* for registration, failed and successful login, logout, logout-all, search
\* and the lookups, hit or miss.
LogFailureSwallowed ==
  [][activity_logs' # activity_logs /\ activity_logs'.failed =>
       \E r \in Reqs : /\ reqs'[r].pc = "done"
                       /\ \A q \in Reqs \ {r} : reqs'[q] = reqs[q]
                       /\ LoggedOutcome(r, activity_logs'.event)]_vars

\* The write of a logout event has failed; the logout was answered 204 and
\* the session it named is revoked.
LogFailureSwallowedWitness ==
  /\ activity_logs = [on |-> TRUE, event |-> "logout", failed |-> TRUE]
  /\ \E r \in Reqs : /\ reqs[r].pc = "done" /\ reqs[r].op = "logout"
                      /\ reqs[r].resp.status = 204
  /\ \E s \in SessionIds : sessions[s].revoked_reason = "logout"

\* The address a lookup answers when it takes its text from x.
Returned(x) == IF formatPropertyAddress(x) = NoText THEN AddressUnavailable
               ELSE formatPropertyAddress(x)

\* C23: a lookup backfills the address only when it looks stale: a parcel
\* whose situs address starts with a house number is answered with its own
\* address, and one whose situs address does not, with an address point in
\* tolerance, is answered with the label of a nearest address point.
BackfillOnlyWhenStale ==
  \A r \in Reqs :
    reqs[r].op \in {"by-parcel-key", "by-coordinates"} /\ searched[r].status = 200 =>
      \A p \in parcels :
        p.parcel_key = searched[r].rows[1].parcel_key =>
          IF LeadingDigit(p.situs_address)
            THEN searched[r].rows[1].address = Returned(p.situs_address)
            ELSE NearestLabels(p) # {NoText} =>
                   \E label \in NearestLabels(p) :
                     searched[r].rows[1].address = Returned(COALESCE(NULLIF(label, <<>>), p.situs_address))

\* C22: login is limited per IP more strictly than registration: in no span
\* of time has loginLimiter let through more requests of the IP than
\* registerLimiter lets through in a span as long, and a request over the
\* limit is answered 429 with the cool-down message.
LoginLimitedMoreStrictly ==
  /\ limits.admitted.login <= RegisterMax * ((limits.now \div RegisterWindow) + 1)
  /\ limits.last.route = "login" /\ limits.login.hits > LoginMax =>
       /\ limits.last.status = 429
       /\ limits.last.error = "Too many login attempts. Please try again later."

\* C24: a login with the right password of an active user is answered 200
\* with a new active session, also when another login of the same user runs
\* at the same time: no login that has passed the password check is answered
\* 500, and one answered 200 has its session in the table.
ValidLoginSucceeds ==
  \A r \in Reqs :
    reqs[r].pc = "done" /\ reqs[r].op = "login" /\ reqs[r].resp.status \notin {400, 401, 403} =>
      /\ reqs[r].resp.status = 200
      /\ reqs[r].resp.sid \in SessionIds

\* C25: the web app sends at most one POST /auth/refresh for a refresh-token
\* value: no two are in flight with the same token, and none is in flight
\* with a token that an earlier POST of the app has already exchanged.
RefreshSentOncePerToken ==
  \A c \in Calls :
    calls[c].pc = "refreshing" =>
      /\ \A d \in Calls \ {c} :
           calls[d].pc = "refreshing" => calls[d].refreshToken # calls[c].refreshToken
      /\ \A x \in spent : x[1] # calls[c].refreshToken

\* C26: once a session row is revoked, no step of a logout, a logout-all or
\* a login writes its revoked_at and revoked_reason again: the reason the
\* row was revoked with is the reason it keeps.
RevocationNeverOverwritten ==
  [][\A s \in SessionIds :
       sessions[s].revoked_reason # NULL =>
         sessions'[s].revoked_reason = sessions[s].revoked_reason]_vars

RefreshFrameStep ==
  \A r \in Reqs :
    (reqs[r].pc = "r_update" /\ reqs'[r].pc = "done") =>
      LET s == reqs[r].sid
      IN  /\ reqs'[r].resp.status = 200
          /\ DOMAIN sessions' = DOMAIN sessions
          /\ \A o \in SessionIds \ {s} : sessions'[o] = sessions[o]
          /\ sessions'[s] =
                [sessions[s] EXCEPT !.refresh_token_hash = sessions'[s].refresh_token_hash]
          /\ reqs'[r].resp.sid = s
          /\ reqs'[r].uid = sessions[s].user_id
          /\ users' = users

\* C27: a refresh changes only the refresh_token_hash of the session it
\* matched (and its last_seen_at): the row keeps its owner, its revocation
\* and its expiry, every other row and every user stays as it was, and the
\* new access token names the same session and the same user.
RefreshFrame == [][RefreshFrameStep]_vars

\* A refresh has rotated the token of one session while the table holds a
\* second row, and the matched session ran out while the refresh held its row.
RefreshFrameWitness ==
  \E r \in Reqs :
    /\ reqs[r].pc = "done" /\ reqs[r].op = "refresh" /\ reqs[r].resp.status = 200
    /\ sessions[reqs[r].resp.sid].refresh_token_hash = hashToken(1)
    /\ sessions[reqs[r].resp.sid].expired
    /\ \E o \in SessionIds \ {reqs[r].resp.sid} :
         sessions[o].refresh_token_hash = hashToken(SeedToken(o))

FailedLoginStep ==
  \A r \in Reqs :
    (Free(r) /\ reqs'[r] # reqs[r] /\ reqs'[r].pc = "done" /\ reqs'[r].op = "login"
       /\ reqs'[r].resp.status \in {400, 401, 403}) =>
      /\ sessions' = sessions
      /\ \A s \in SessionIds :
           /\ (VerifyMatches(s, sessions[s].user_id))' = VerifyMatches(s, sessions[s].user_id)
           /\ (RefreshMatches(sessions[s].refresh_token_hash))' =
                 RefreshMatches(sessions[s].refresh_token_hash)

\* C28: a login answered 400, 401 or 403 creates no session and revokes
\* none: user_sessions is as it was, and every access token and refresh
\* token that was good for a session before the login is good after it.
FailedLoginFrame == [][FailedLoginStep]_vars

\* Logins were answered 401 for a wrong password and 401 for an unknown
\* user while the session of the earlier login is live.
FailedLoginFrameWitness ==
  /\ reqs["h1"].pc = "done" /\ reqs["h1"].note = "bad_password"
  /\ reqs["h2"].pc = "done" /\ reqs["h2"].note = "user_not_found"
  /\ VerifyMatches(1, 1) = {1}
  /\ RefreshMatches(hashToken(1)) = {1}

\* C29: registration is all-or-nothing: once the register call that
\* inserted a user has ended, the user row has its terms-acceptance row; a
\* failure while the terms are recorded leaves no user behind.
RegisterAllOrNothing ==
  \A u \in UserIds :
    (~\E r \in Reqs : reqs[r].pc = "g_terms" /\ reqs[r].uid = u) => u \in terms

\* C30: the refresh slot of the web app is always released: when no POST
\* /auth/refresh of the app is pending, refreshInFlight and
\* refreshInFlightForToken are both null, and a promise the slot holds is
\* the pending one of the call that made it, for the token the slot names.
RefreshSlotReleased ==
  /\ (\A c \in Calls : calls[c].pc # "refreshing") =>
        (refreshInFlight = NULL /\ refreshInFlightForToken = NoRefreshToken)
  /\ refreshInFlight # NULL =>
        /\ calls[refreshInFlight].pc = "refreshing"
        /\ calls[refreshInFlight].refreshToken = refreshInFlightForToken

\* Calls that entered the refresh path with two different tokens, the one
\* the app signed in with and the one a refresh rotated it to, have ended in
\* failure, no refresh is pending, and the slot is empty.
RefreshSlotReleasedWitness ==
  /\ refreshInFlight = NULL /\ refreshInFlightForToken = NoRefreshToken
  /\ \A c \in Calls : calls[c].pc # "refreshing"
  /\ \E c, d \in Calls :
       /\ calls[c].pc = "done" /\ calls[c].outcome = "refresh_failed"
       /\ calls[d].pc = "done" /\ calls[d].outcome \in {"refresh_failed", "retry_failed"}
       /\ calls[c].refreshToken # calls[d].refreshToken
       /\ calls[d].refreshToken # NoRefreshToken

====
